---- MODULE Spec2Model ----
(***************************************************************************)
(* Collection & extraction pipeline of TAIFA-FIALA                         *)
(* (backend/etl/intelligence): the bounded-concurrency extraction queue,   *)
(* target discovery ids and deduplication, target prioritization, the      *)
(* completeness score and the quality gate.                                *)
(***************************************************************************)
EXTENDS Integers, Sequences, FiniteSets, TLC

----------------------------------------------------------------------------
(* Bounds of the model *)

\* largest number of targets handed to one extraction queue
MaxTargets == 5
\* largest value of the max_concurrent parameter that is explored (>= 1)
MaxConc == 3
\* largest number of targets the missions of one cycle discover
MaxCandidates == 3
\* largest reading of the clock behind datetime.now()
MaxClock == 2
\* longest list handed to _prioritize_targets
MaxPrioLen == 3
\* largest max_targets_per_cycle that is explored (>= 1)
MaxCap == 2
\* longest list of extraction results handed to the quality gate
MaxResults == 2
\* most links on a crawled page
MaxLinks == 6

----------------------------------------------------------------------------
(* State *)

VARIABLES
    pcq,            \* position of _process_extraction_queue: idle / gathering / returned
    nTargets,       \* len(targets) of the running queue
    max_concurrent, \* the max_concurrent argument of the running queue
    sem,            \* asyncio.Semaphore._value
    tstate,         \* per task: waiting (before acquire) / inflight / done
    taskres,        \* per task: what gather collected for it: none / ok / failed / exc
    threw,          \* per task: extract_innovation_data raised
    attached,       \* per target: target.extraction_result (none / ok / failed)
    batch,          \* the list returned by the queue: <<target index, kind>>
    qout,           \* how the queue call ended: none / returned / raised
    variant         \* which orchestrator runs the queue: semaphore / sequential

qvars == <<pcq, nTargets, max_concurrent, sem, tstate, taskres, threw, attached, batch, qout, variant>>

VARIABLES
    dpc,            \* discovery: discovering / deduped
    clock,          \* the last value datetime.now() returned
    candidates,     \* the mission outputs, merged in mission execution order
    survivors       \* the candidates left after deduplication

dvars == <<dpc, clock, candidates, survivors>>

VARIABLES
    ppc,            \* prioritization: input / done
    pvariant,       \* full / simple: which orchestrator's _prioritize_targets
    pin,            \* the targets argument
    max_targets,    \* collection_config["processing_limits"]["max_targets_per_cycle"]
    pout            \* the returned queue, as positions of pin

pvars == <<ppc, pvariant, pin, max_targets, pout>>

VARIABLES
    gpc,            \* quality gate: input / validated / persisting / stored
    gvariant,       \* full / simple: which orchestrator's gate
    results,        \* the extraction_results argument
    gcfg,           \* collection_config["quality_thresholds"]
    validated,      \* the records forwarded, as positions of results
    gprev,          \* what the gate forwarded before the thresholds changed
    glast,          \* the last change of thresholds: first / looser / other
    persist_calls,  \* the Persist calls made: <<position of results, succeeded>>
    database_records_created    \* the count reported by the cycle

gvars == <<gpc, gvariant, results, gcfg, validated, gprev, glast,
           persist_calls, database_records_created>>

VARIABLES
    spc,            \* scorer: unscored / scored
    fields,         \* the thirteen scored fields of one result, by kind of value
    score           \* data_completeness_score as <<numerator, denominator>>

svars == <<spc, fields, score>>

VARIABLES
    epc,            \* extract_innovation_data: start / crawled / processed / done
    evariant,       \* full / simple: which copy of the extractor's helpers
    page,           \* what the crawl of the page gives (or that it raises)
    extracted_data, \* the InnovationExtractionResult under construction
    mapped,         \* the result as _map_json_to_result left it
    raised          \* the exception that ended the extraction, "" if none

evars == <<epc, evariant, page, extracted_data, mapped, raised>>

VARIABLES
    lpc,            \* _follow_related_links: idle / fetching / returned
    lcontent_type,  \* content type of the page whose links are followed
    ldepth,         \* the max_depth argument
    llinks,         \* result.links, each link by what its anchor text matches
    priority_links, \* the links chosen, as positions of llinks
    lidx,           \* position of the loop in the links to fetch
    fetched,        \* number of crawler.arun calls made for links
    additional_data \* positions of the links whose patterns were stored

lvars == <<lpc, lcontent_type, ldepth, llinks, priority_links, lidx, fetched,
           additional_data>>

VARIABLES
    mpc,            \* collector mission: idle / querying / returned
    mission,        \* academic / innovation / news / community
    mq,             \* position of the loop in the battery of queries
    mresp,          \* per query issued: size of its response, -1 if it raised
    missued,        \* per query: how many times it was issued
    mtargets,       \* targets, each <<query, position in its response>>
    mslept,         \* per query issued: asyncio.sleep(2) ran before the next turn
    mout            \* the list the mission returned

mvars == <<mpc, mission, mq, mresp, missued, mtargets, mslept, mout>>

VARIABLES
    rpc,            \* cycle reporter: start / done
    rvariant,       \* full / simple: which orchestrator's reporter
    extraction_results,     \* the results the reporter is given
    innovations_extracted,  \* cycle_result.innovations_extracted
    recommendations,        \* the list returned
    rraised         \* the reporter raised ZeroDivisionError

rvars == <<rpc, rvariant, extraction_results, innovations_extracted,
           recommendations, rraised>>

VARIABLES
    cvariant,       \* full / simple: which orchestrator runs the cycles
    cmax,           \* max_concurrent of the orchestrator's extraction queue
    cycle_seq,      \* number of cycles started so far; the id of the latest
    running,        \* per cycle under way: targets discovered and its tasks
    collection_history,     \* self.collection_history
    stats           \* what the last call of get_collection_stats returned

cvars == <<cvariant, cmax, cycle_seq, running, collection_history, stats>>

VARIABLES
    hpc,            \* extraction of repository targets: start / done
    search_content, \* the text of a search response, as a sequence of tokens
    github_targets  \* the targets returned

hvars == <<hpc, search_content, github_targets>>

VARIABLES
    job_statuses,   \* ETLMonitor.job_statuses: per job name its ETLJobStatus
    now,            \* the clock datetime.now() reads
    active_runs,    \* per pipeline: background runs scheduled and not finished
    completed_runs, \* per pipeline: background runs that have finished
    run_calls,      \* per pipeline: complete_job calls made by its last run
    response,       \* the answer to the latest trigger request
    tjobs,          \* the jobs of the monitoring test
    tpos,           \* position of the test's loop
    tpc             \* idle / loop / body / raised / done

jvars == <<job_statuses, now, active_runs, completed_runs, run_calls, response,
           tjobs, tpos, tpc>>

vars == <<qvars, dvars, pvars, gvars, svars, evars, lvars, mvars, rvars, cvars, hvars, jvars>>

\* what the actions of one component leave alone
NotQ == <<dvars, pvars, gvars, svars, evars, lvars, mvars, rvars, cvars, hvars, jvars>>
NotD == <<qvars, pvars, gvars, svars, evars, lvars, mvars, rvars, cvars, hvars, jvars>>
NotP == <<qvars, dvars, gvars, svars, evars, lvars, mvars, rvars, cvars, hvars, jvars>>
NotG == <<qvars, dvars, pvars, svars, evars, lvars, mvars, rvars, cvars, hvars, jvars>>
NotS == <<qvars, dvars, pvars, gvars, evars, lvars, mvars, rvars, cvars, hvars, jvars>>
NotE == <<qvars, dvars, pvars, gvars, svars, lvars, mvars, rvars, cvars, hvars, jvars>>
NotL == <<qvars, dvars, pvars, gvars, svars, evars, mvars, rvars, cvars, hvars, jvars>>
NotM == <<qvars, dvars, pvars, gvars, svars, evars, lvars, rvars, cvars, hvars, jvars>>
NotR == <<qvars, dvars, pvars, gvars, svars, evars, lvars, mvars, cvars, hvars, jvars>>
NotC == <<qvars, dvars, pvars, gvars, svars, evars, lvars, mvars, rvars, hvars, jvars>>
NotH == <<qvars, dvars, pvars, gvars, svars, evars, lvars, mvars, rvars, cvars, jvars>>
NotJ == <<qvars, dvars, pvars, gvars, svars, evars, lvars, mvars, rvars, cvars, hvars>>

Tasks == 1..nTargets

\* extractions that hold a permit: inside "async with semaphore", not yet released
InFlight == {i \in Tasks : tstate[i] = "inflight"}

----------------------------------------------------------------------------
(* asyncio primitives as the queue uses them *)

\* an acquire that also proceeds at value 0
SemaphoreFreeOffByOne(v) == v >= 0

\* asyncio.Semaphore.acquire: proceeds only while the value is positive
SemaphoreFree(v) == v > 0

\* gather(..., return_exceptions=True)
ReturnExceptions == TRUE

\* a wait that resolves with the first finished task
GatherFirstCompleted(ts, res) ==
    \/ DOMAIN ts = {}
    \/ \E i \in DOMAIN ts : ts[i] = "done"

\* gather resolves when every awaited task has finished; without
\* return_exceptions it resolves as soon as one task has raised
GatherReady(ts, res) ==
    \/ \A i \in DOMAIN ts : ts[i] = "done"
    \/ ~ReturnExceptions /\ \E i \in DOMAIN res : res[i] = "exc"

\* without return_exceptions the first exception is raised to the caller
GatherOutcome(res) ==
    IF ~ReturnExceptions /\ \E i \in DOMAIN res : res[i] = "exc"
    THEN "raised" ELSE "returned"

\* lines 759-765: keep the InnovationExtractionResult objects, drop exceptions
\* (a task that has not finished contributes nothing)
RECURSIVE FilterResults(_, _)
FilterResults(res, i) ==
    IF i > Len(res) THEN <<>>
    ELSE (IF res[i] \in {"ok", "failed"} THEN <<<<i, res[i]>>>> ELSE <<>>)
         \o FilterResults(res, i + 1)

\* a handler that logs and re-raises
TaskReRaises == "exc"

\* lines 792-802: what the task returns when extract_innovation_data raised
TaskOnException == "failed"

----------------------------------------------------------------------------
(* Initial state: orchestrator constructed, no queue running *)

QInit ==
    /\ pcq = "idle"
    /\ nTargets = 0
    /\ max_concurrent = 1
    /\ sem = 0
    /\ tstate = <<>>
    /\ taskres = <<>>
    /\ threw = <<>>
    /\ attached = <<>>
    /\ batch = <<>>
    /\ qout = "none"
    /\ variant = "semaphore"

DInit ==
    /\ dpc = "discovering"
    /\ clock = 0
    /\ candidates = <<>>
    /\ survivors = <<>>

\* no prioritization under way
PIdle ==
    /\ ppc = "input"
    /\ pvariant = "full"
    /\ pin = <<>>
    /\ max_targets = 1
    /\ pout = <<>>

\* no validation under way
GIdle ==
    /\ gpc = "input"
    /\ gvariant = "full"
    /\ results = <<>>
    /\ gcfg = [min_completeness |-> 30, min_confidence |-> 50, max_flags |-> 2]
    /\ validated = <<>>
    /\ gprev = <<>>
    /\ glast = "first"
    /\ persist_calls = <<>>
    /\ database_records_created = 0

\* a result just constructed: every optional field is None, no score yet
SIdle ==
    /\ spc = "unscored"
    /\ fields = [title |-> "none", description |-> "none",
                 innovation_type |-> "none", problem_solved |-> "none",
                 technical_approach |-> "none", development_stage |-> "none",
                 technical_stack |-> "none", creators |-> "none",
                 organization_affiliation |-> "none", location |-> "none",
                 contact_information |-> "none", use_cases |-> "none",
                 funding_sources |-> "none"]
    /\ score = <<0, 1>>

\* contact_information = None
NoContact == [dict |-> "none", email |-> "none", github |-> "none"]

\* InnovationExtractionResult(url, content_type, extraction_timestamp, success):
\* every optional field at its default
NewResult(ok) ==
    [success |-> ok, title |-> "none", description |-> "none",
     location |-> "none", contact_information |-> NoContact,
     technical_approach |-> "none", technical_stack |-> "none",
     funding_sources |-> "none", funding_amounts |-> "none",
     data_completeness_score |-> <<0, 1>>,
     confidence_score |-> 0, validation_flags |-> <<>>]

\* no page has been crawled yet
NoPage ==
    [raises |-> FALSE, answer |-> "absent",
     llm |-> [title |-> "none", description |-> "none", location |-> "none",
              contact_section |-> FALSE, email |-> "none", github |-> "none",
              technical_approach |-> "none", technical_stack |-> "none",
              funding_sources |-> "none", funding_amounts |-> "none"],
     pattern |-> [emails |-> FALSE, github_repos |-> FALSE,
                  funding_amounts |-> FALSE, african_locations |-> "absent"],
     links |-> "pending"]

\* no extraction under way
EIdle ==
    /\ epc = "start"
    /\ evariant = "full"
    /\ page = NoPage
    /\ extracted_data = NewResult(TRUE)
    /\ mapped = NewResult(TRUE)
    /\ raised = ""

\* no link-following under way
LIdle ==
    /\ lpc = "idle"
    /\ lcontent_type = "INNOVATION_PROFILE"
    /\ ldepth = 0
    /\ llinks = <<>>
    /\ priority_links = <<>>
    /\ lidx = 1
    /\ fetched = 0
    /\ additional_data = {}

\* no mission under way
MIdle ==
    /\ mpc = "idle"
    /\ mission = "academic"
    /\ mq = 1
    /\ mresp = <<>>
    /\ missued = <<>>
    /\ mtargets = <<>>
    /\ mslept = <<>>
    /\ mout = <<>>

\* no report under way
RIdle ==
    /\ rpc = "start"
    /\ rvariant = "full"
    /\ extraction_results = <<>>
    /\ innovations_extracted = 0
    /\ recommendations = <<>>
    /\ rraised = FALSE

\* orchestrator constructed, no cycle run yet
CIdle ==
    /\ cvariant = "full"
    /\ cmax = 1
    /\ cycle_seq = 0
    /\ running = {}
    /\ collection_history = <<>>
    /\ stats = [message |-> "not called"]

\* no search response under examination
HIdle ==
    /\ hpc = "start"
    /\ search_content = <<>>
    /\ github_targets = <<>>

\* no pipeline triggered, no monitored job
JIdle ==
    /\ job_statuses = <<>>
    /\ now = 0
    /\ active_runs = <<>>
    /\ completed_runs = <<>>
    /\ run_calls = <<>>
    /\ response = <<>>
    /\ tjobs = <<>>
    /\ tpos = 1
    /\ tpc = "idle"

Init == QInit /\ DInit /\ PIdle /\ GIdle /\ SIdle /\ EIdle /\ LIdle /\ MIdle /\ RIdle /\ CIdle /\ HIdle /\ JIdle

----------------------------------------------------------------------------
(* _process_extraction_queue, lines 742-757: semaphore and one task per target *)

process_extraction_queue_start(n, mc) ==
    /\ pcq = "idle"
    /\ pcq' = "gathering"
    /\ variant' = "semaphore"
    /\ nTargets' = n
    /\ max_concurrent' = mc
    /\ sem' = mc
    /\ tstate' = [i \in 1..n |-> "waiting"]
    /\ taskres' = [i \in 1..n |-> "none"]
    /\ threw' = [i \in 1..n |-> FALSE]
    /\ attached' = [i \in 1..n |-> "none"]
    /\ batch' = <<>>
    /\ qout' = "none"
    /\ UNCHANGED NotQ

(* _extract_target_with_semaphore, line 775: async with semaphore *)
semaphore_acquire(i) ==
    /\ pcq = "gathering" /\ variant = "semaphore"
    /\ tstate[i] = "waiting"
    /\ SemaphoreFree(sem)
    /\ sem' = sem - 1
    /\ tstate' = [tstate EXCEPT ![i] = "inflight"]
    /\ UNCHANGED NotQ /\ UNCHANGED <<pcq, nTargets, max_concurrent, taskres, threw, attached, batch, qout, variant>>

(* lines 779-790: extract_innovation_data returned a result (success True, or
   the failed result it builds itself); the target is updated, the result
   returned and the permit released on leaving the with block *)
extract_target_returns(i, kind) ==
    /\ pcq = "gathering" /\ variant = "semaphore"
    /\ tstate[i] = "inflight"
    /\ tstate' = [tstate EXCEPT ![i] = "done"]
    /\ taskres' = [taskres EXCEPT ![i] = kind]
    /\ attached' = [attached EXCEPT ![i] = kind]
    /\ sem' = sem + 1
    /\ UNCHANGED NotQ /\ UNCHANGED <<pcq, nTargets, max_concurrent, threw, batch, qout, variant>>

(* an exception in one task that cancels the tasks still running or waiting *)
extract_target_raises_cancels_siblings(i) ==
    /\ pcq = "gathering" /\ variant = "semaphore"
    /\ tstate[i] = "inflight"
    /\ tstate' = [j \in Tasks |-> "done"]
    /\ taskres' = [j \in Tasks |->
                     IF j = i THEN TaskOnException
                     ELSE IF tstate[j] = "done" THEN taskres[j] ELSE "cancelled"]
    /\ threw' = [threw EXCEPT ![i] = TRUE]
    /\ sem' = max_concurrent
    /\ UNCHANGED NotQ /\ UNCHANGED <<pcq, nTargets, max_concurrent, attached, batch, qout, variant>>

(* a handler that puts the target back in the queue for another attempt *)
extract_target_raises_retries(i) ==
    /\ pcq = "gathering" /\ variant = "semaphore"
    /\ tstate[i] = "inflight"
    /\ tstate' = [tstate EXCEPT ![i] = "waiting"]
    /\ threw' = [threw EXCEPT ![i] = TRUE]
    /\ sem' = sem + 1
    /\ UNCHANGED NotQ /\ UNCHANGED <<pcq, nTargets, max_concurrent, taskres, attached, batch, qout, variant>>

(* a handler that returns the failed result without releasing the permit *)
extract_target_raises_keeps_permit(i) ==
    /\ pcq = "gathering" /\ variant = "semaphore"
    /\ tstate[i] = "inflight"
    /\ tstate' = [tstate EXCEPT ![i] = "done"]
    /\ taskres' = [taskres EXCEPT ![i] = TaskOnException]
    /\ threw' = [threw EXCEPT ![i] = TRUE]
    /\ UNCHANGED NotQ /\ UNCHANGED <<pcq, nTargets, max_concurrent, sem, attached, batch, qout, variant>>

(* lines 792-802: extract_innovation_data raised; the handler returns a failed
   result, the target is left as it was, the permit is released *)
extract_target_raises(i) ==
    /\ pcq = "gathering" /\ variant = "semaphore"
    /\ tstate[i] = "inflight"
    /\ tstate' = [tstate EXCEPT ![i] = "done"]
    /\ taskres' = [taskres EXCEPT ![i] = TaskOnException]
    /\ threw' = [threw EXCEPT ![i] = TRUE]
    /\ sem' = sem + 1
    /\ UNCHANGED NotQ /\ UNCHANGED <<pcq, nTargets, max_concurrent, attached, batch, qout, variant>>

(* lines 757-768: the gather barrier resolves, results are filtered, returned *)
process_extraction_queue_return ==
    /\ pcq = "gathering" /\ variant = "semaphore"
    /\ GatherReady(tstate, taskres)
    /\ pcq' = "returned"
    /\ qout' = GatherOutcome(taskres)
    /\ batch' = IF GatherOutcome(taskres) = "returned"
                THEN FilterResults(taskres, 1) ELSE <<>>
    /\ UNCHANGED NotQ /\ UNCHANGED <<nTargets, max_concurrent, sem, tstate, taskres, threw, attached, variant>>

----------------------------------------------------------------------------
(* The simplified orchestrator's _process_extraction_queue, lines 1033-1071:
   one target after the other, no semaphore; the sleep after a successful
   extraction is the only other suspension point and nothing runs during it *)

sequential_queue_start(n) ==
    /\ pcq = "idle"
    /\ pcq' = "gathering"
    /\ variant' = "sequential"
    /\ nTargets' = n
    /\ max_concurrent' = 1
    /\ sem' = 0
    /\ tstate' = [i \in 1..n |-> "waiting"]
    /\ taskres' = [i \in 1..n |-> "none"]
    /\ threw' = [i \in 1..n |-> FALSE]
    /\ attached' = [i \in 1..n |-> "none"]
    /\ batch' = <<>>
    /\ qout' = "none"
    /\ UNCHANGED NotQ

(* line 1040/1044: the loop reaches target i and awaits its extraction *)
sequential_extract_begin(i) ==
    /\ pcq = "gathering" /\ variant = "sequential"
    /\ tstate[i] = "waiting"
    /\ \A j \in 1..(i - 1) : tstate[j] = "done"
    /\ tstate' = [tstate EXCEPT ![i] = "inflight"]
    /\ UNCHANGED NotQ /\ UNCHANGED <<pcq, nTargets, max_concurrent, sem, taskres, threw, attached, batch, qout, variant>>

(* lines 1051-1056: result attached to the target and appended *)
sequential_extract_returns(i, kind) ==
    /\ pcq = "gathering" /\ variant = "sequential"
    /\ tstate[i] = "inflight"
    /\ tstate' = [tstate EXCEPT ![i] = "done"]
    /\ taskres' = [taskres EXCEPT ![i] = kind]
    /\ attached' = [attached EXCEPT ![i] = kind]
    /\ batch' = Append(batch, <<i, kind>>)
    /\ UNCHANGED NotQ /\ UNCHANGED <<pcq, nTargets, max_concurrent, sem, threw, qout, variant>>

(* lines 1058-1069: a failed result is built and appended *)
sequential_extract_raises(i) ==
    /\ pcq = "gathering" /\ variant = "sequential"
    /\ tstate[i] = "inflight"
    /\ tstate' = [tstate EXCEPT ![i] = "done"]
    /\ taskres' = [taskres EXCEPT ![i] = "failed"]
    /\ threw' = [threw EXCEPT ![i] = TRUE]
    /\ batch' = Append(batch, <<i, "failed">>)
    /\ UNCHANGED NotQ /\ UNCHANGED <<pcq, nTargets, max_concurrent, sem, attached, qout, variant>>

(* line 1071: the loop is over *)
sequential_queue_return ==
    /\ pcq = "gathering" /\ variant = "sequential"
    /\ \A i \in Tasks : tstate[i] = "done"
    /\ pcq' = "returned"
    /\ qout' = "returned"
    /\ UNCHANGED NotQ /\ UNCHANGED <<nTargets, max_concurrent, sem, tstate, taskres, threw, attached, batch, variant>>

----------------------------------------------------------------------------
(* the caller takes the batch; the orchestrator is ready for the next queue *)
queue_consumed ==
    /\ pcq = "returned"
    /\ pcq' = "idle"
    /\ UNCHANGED NotQ /\ UNCHANGED <<nTargets, max_concurrent, sem, tstate, taskres, threw, attached, batch, qout, variant>>

Next ==
    \/ \E n \in 0..MaxTargets, mc \in 1..MaxConc : process_extraction_queue_start(n, mc)
    \/ \E i \in Tasks : semaphore_acquire(i)
    \/ \E i \in Tasks, kind \in {"ok", "failed"} : extract_target_returns(i, kind)
    \/ \E i \in Tasks : extract_target_raises(i)
    \/ process_extraction_queue_return
    \/ \E n \in 0..MaxTargets : sequential_queue_start(n)
    \/ \E i \in Tasks : sequential_extract_begin(i)
    \/ \E i \in Tasks, kind \in {"ok", "failed"} : sequential_extract_returns(i, kind)
    \/ \E i \in Tasks : sequential_extract_raises(i)
    \/ sequential_queue_return
    \/ queue_consumed

Spec == Init /\ [][Next]_vars

----------------------------------------------------------------------------
(* The queue of the full orchestrator under the scheduling of the event loop:
   a task that can run is run, and every extraction call returns or raises *)

NextSemaphore ==
    \/ \E n \in 0..MaxTargets, mc \in 1..MaxConc : process_extraction_queue_start(n, mc)
    \/ \E i \in Tasks : semaphore_acquire(i)
    \/ \E i \in Tasks, kind \in {"ok", "failed"} : extract_target_returns(i, kind)
    \/ \E i \in Tasks : extract_target_raises(i)
    \/ process_extraction_queue_return
    \/ queue_consumed

\* the steps of a queue under way
QueueProgress ==
    \/ \E i \in Tasks : semaphore_acquire(i)
    \/ \E i \in Tasks, kind \in {"ok", "failed"} : extract_target_returns(i, kind)
    \/ \E i \in Tasks : extract_target_raises(i)
    \/ process_extraction_queue_return

SpecQueueFair == Init /\ [][NextSemaphore]_vars /\ WF_vars(QueueProgress)

----------------------------------------------------------------------------
(* Target discovery: the ids the extractors build, and deduplication *)

\* repositories and news pages the search text can mention
Repos == {"acme/ai-tool", "instadeepai/mava"}
NewsDomains == {"techcabal.com", "techpoint.africa"}
Articles == {"a1", "a2"}

\* the synthetic id of a target: f"{source}_{identifying attribute}_{timestamp}"
\* (line 535: github_{owner}_{repo_name}_{ts}; line 640: news_{domain}_{ts})
SyntheticId(t) == <<t.source, t.key, t.ts>>

\* the identifying attribute the id is built around, without the timestamp
IdentifyingAttribute(t) == <<t.source, t.key>>

\* lines 534-547: one target per repository URL found; datetime.now() is read
\* once for the id and once for discovered_at, d1 and d2 are the clock ticks
\* that passed before each reading
extract_github_target(repo, d1, d2) ==
    /\ dpc = "discovering"
    /\ Len(candidates) < MaxCandidates
    /\ clock + d1 + d2 <= MaxClock
    /\ clock' = clock + d1 + d2
    /\ candidates' = Append(candidates,
          [source |-> "github", key |-> repo, url |-> <<"github.com", repo>>,
           content_type |-> "GITHUB_REPOSITORY", priority |-> "MEDIUM",
           ts |-> clock + d1, discovered_at |-> clock + d1 + d2])
    /\ UNCHANGED <<dpc, survivors>>
    /\ UNCHANGED NotD

\* lines 639-652: one target per article URL of a known news domain
extract_news_target(domain, article, d1, d2) ==
    /\ dpc = "discovering"
    /\ Len(candidates) < MaxCandidates
    /\ clock + d1 + d2 <= MaxClock
    /\ clock' = clock + d1 + d2
    /\ candidates' = Append(candidates,
          [source |-> "news", key |-> domain, url |-> <<domain, article>>,
           content_type |-> "NEWS_ARTICLE", priority |-> "HIGH",
           ts |-> clock + d1, discovered_at |-> clock + d1 + d2])
    /\ UNCHANGED <<dpc, survivors>>
    /\ UNCHANGED NotD

\* first-seen-wins: a candidate survives unless an earlier one has its id
RECURSIVE Dedup(_, _)
Dedup(cs, k) ==
    IF k > Len(cs) THEN <<>>
    ELSE (IF \E j \in 1..(k - 1) : SyntheticId(cs[j]) = SyntheticId(cs[k])
          THEN <<>> ELSE <<cs[k]>>) \o Dedup(cs, k + 1)

\* the merged mission outputs are deduplicated by id
deduplicate_targets ==
    /\ dpc = "discovering"
    /\ dpc' = "deduped"
    /\ survivors' = Dedup(candidates, 1)
    /\ UNCHANGED <<clock, candidates>>
    /\ UNCHANGED NotD

\* the cycle is over, its targets are discarded
discovery_cycle_end ==
    /\ dpc = "deduped"
    /\ dpc' = "discovering"
    /\ clock' = 0
    /\ candidates' = <<>>
    /\ survivors' = <<>>
    /\ UNCHANGED NotD

NextDiscovery ==
    \/ \E r \in Repos, d1 \in 0..1, d2 \in 0..1 : extract_github_target(r, d1, d2)
    \/ \E dom \in NewsDomains, a \in Articles, d1 \in 0..1, d2 \in 0..1 :
          extract_news_target(dom, a, d1, d2)
    \/ deduplicate_targets
    \/ discovery_cycle_end

SpecDiscovery == Init /\ [][NextDiscovery]_vars

----------------------------------------------------------------------------
(* Target prioritization *)

PriorityLevels == {"URGENT", "HIGH", "MEDIUM", "LOW", "BATCH"}

\* lines 725-731 (and 1023-1029): priority_order
priority_order(p) ==
    CASE p = "URGENT" -> 0
      [] p = "HIGH" -> 1
      [] p = "MEDIUM" -> 2
      [] p = "LOW" -> 3
      [] p = "BATCH" -> 4

\* values of discovered_at
DiscoveryTimes == 0..1

\* a follow-up target that is not urgent
create_validation_target_high(t) ==
    [priority |-> "HIGH", discovered_at |-> t,
     source_collector |-> "INTELLIGENCE_SYNTHESIS"]

\* lines 350-361: the follow-up target of a validation flag, created at time t
create_validation_target(t) ==
    [priority |-> "URGENT", discovered_at |-> t,
     source_collector |-> "INTELLIGENCE_SYNTHESIS"]

\* the targets of the discovery missions and the follow-up targets
PrioTargets ==
    [priority : PriorityLevels, discovered_at : DiscoveryTimes,
     source_collector : {"INNOVATION_DISCOVERY"}]
    \cup {create_validation_target(t) : t \in DiscoveryTimes}

\* sequences over S of length at most n
SeqUpTo(S, n) == UNION {[1..k -> S] : k \in 0..n}

Min(a, b) == IF a <= b THEN a ELSE b

\* the simplified orchestrator's key, line 1031: the rank alone
SortKeyPriorityOnly(t) == <<priority_order(t.priority), 0>>

\* a key that forgets discovered_at
SortKeyWithoutTime(t) == <<priority_order(t.priority), 0>>

\* line 735: key=lambda t: (priority_order[t.priority], t.discovered_at)
SortKey(t) == <<priority_order(t.priority), t.discovered_at>>

\* tuple comparison of two (rank, discovered_at) keys
KeyLess(a, b) == a[1] < b[1] \/ (a[1] = b[1] /\ a[2] < b[2])

\* an insertion that puts x before the elements of equal key
RECURSIVE InsertBeforeEqual(_, _, _)
InsertBeforeEqual(s, x, keys) ==
    IF s = <<>> THEN <<x>>
    ELSE IF ~KeyLess(keys[Head(s)], keys[x]) THEN <<x>> \o s
         ELSE <<Head(s)>> \o InsertBeforeEqual(Tail(s), x, keys)

\* sorted() is stable: x goes before the first element whose key is greater
RECURSIVE InsertStable(_, _, _)
InsertStable(s, x, keys) ==
    IF s = <<>> THEN <<x>>
    ELSE IF KeyLess(keys[x], keys[Head(s)]) THEN <<x>> \o s
         ELSE <<Head(s)>> \o InsertStable(Tail(s), x, keys)

\* sorted(range, key=keys): the positions 1..k of keys in sorted order
RECURSIVE SortedPositions(_, _)
SortedPositions(keys, k) ==
    IF k = 0 THEN <<>>
    ELSE InsertStable(SortedPositions(keys, k - 1), k, keys)

\* the sorted targets, all of them
prioritize_targets_uncapped(ts, cap) ==
    SortedPositions([k \in 1..Len(ts) |-> SortKey(ts[k])], Len(ts))

\* lines 721-740: sort by (rank, discovered_at), keep the first max_targets
prioritize_targets(ts, cap) ==
    LET sorted_targets == SortedPositions([k \in 1..Len(ts) |-> SortKey(ts[k])], Len(ts))
    IN  SubSeq(sorted_targets, 1, Min(cap, Len(ts)))

\* lines 1020-1031: the simplified orchestrator sorts by rank and keeps all
prioritize_targets_simple(ts) ==
    SortedPositions([k \in 1..Len(ts) |-> SortKeyPriorityOnly(ts[k])], Len(ts))

\* a list in the order its targets were created: discovered_at never decreases
DiscoveryOrdered(ts) ==
    \A k \in 1..(Len(ts) - 1) : ts[k].discovered_at <= ts[k + 1].discovered_at

\* the lists handed to prioritization; the simplified orchestrator hands over
\* its targets in the order it created them
PInit ==
    /\ ppc = "input"
    /\ pvariant \in {"full", "simple"}
    /\ pin \in SeqUpTo(PrioTargets, MaxPrioLen)
    /\ pvariant = "simple" => DiscoveryOrdered(pin)
    /\ max_targets \in 1..MaxCap
    /\ pout = <<>>

call_prioritize_targets ==
    /\ ppc = "input" /\ pvariant = "full"
    /\ ppc' = "done"
    /\ pout' = prioritize_targets(pin, max_targets)
    /\ UNCHANGED <<pvariant, pin, max_targets>>
    /\ UNCHANGED NotP

call_prioritize_targets_simple ==
    /\ ppc = "input" /\ pvariant = "simple"
    /\ ppc' = "done"
    /\ pout' = prioritize_targets_simple(pin)
    /\ UNCHANGED <<pvariant, pin, max_targets>>
    /\ UNCHANGED NotP

NextPrio ==
    \/ call_prioritize_targets
    \/ call_prioritize_targets_simple

InitPrio == QInit /\ DInit /\ PInit /\ GIdle /\ SIdle /\ EIdle /\ LIdle /\ MIdle /\ RIdle /\ CIdle /\ HIdle /\ JIdle

SpecPrio == InitPrio /\ [][NextPrio]_vars

----------------------------------------------------------------------------
(* Quality gate.  A completeness score is held as its numerator over 17 (the
   total weight of the scored fields), a confidence score and the two score
   thresholds in hundredths. *)

CompletenessValues == {4, 17}
ConfidenceValues == {50, 60}
FlagCounts == {0, 2}

ExtractionResults ==
    [success : BOOLEAN, completeness : CompletenessValues,
     confidence : ConfidenceValues, nflags : FlagCounts]

QualityThresholds ==
    [min_completeness : {30, 100}, min_confidence : {50, 60}, max_flags : {0, 2}]

\* a flag test the wrong way round
PassesQualityGateFlagsFlipped(r, cfg) ==
    /\ r.completeness * 100 >= cfg.min_completeness * 17
    /\ r.confidence >= cfg.min_confidence
    /\ r.nflags >= cfg.max_flags

\* lines 819-821: the three thresholds
PassesQualityGate(r, cfg) ==
    /\ r.completeness * 100 >= cfg.min_completeness * 17
    /\ r.confidence >= cfg.min_confidence
    /\ r.nflags <= cfg.max_flags

\* lines 808-832: failed results are skipped, the others pass the thresholds
RECURSIVE validate_and_store_innovations(_, _, _)
validate_and_store_innovations(rs, cfg, k) ==
    IF k > Len(rs) THEN <<>>
    ELSE (IF rs[k].success /\ PassesQualityGate(rs[k], cfg) THEN <<k>> ELSE <<>>)
         \o validate_and_store_innovations(rs, cfg, k + 1)

\* lines 1073-1098: the simplified orchestrator's gate, thresholds 0.3 and 0.5
RECURSIVE validate_innovations(_, _)
validate_innovations(rs, k) ==
    IF k > Len(rs) THEN <<>>
    ELSE (IF /\ rs[k].success
             /\ rs[k].completeness * 100 >= 30 * 17
             /\ rs[k].confidence >= 50
          THEN <<k>> ELSE <<>>)
         \o validate_innovations(rs, k + 1)

\* cfg2 is at least as permissive as cfg1 in each threshold
Looser(cfg2, cfg1) ==
    /\ cfg2.min_completeness <= cfg1.min_completeness
    /\ cfg2.min_confidence <= cfg1.min_confidence
    /\ cfg2.max_flags >= cfg1.max_flags

GInit ==
    /\ gpc = "input"
    /\ gvariant \in {"full", "simple"}
    /\ results \in SeqUpTo(ExtractionResults, MaxResults)
    /\ gcfg \in QualityThresholds
    /\ validated = <<>>
    /\ gprev = <<>>
    /\ glast = "first"
    /\ persist_calls = <<>>
    /\ database_records_created = 0

call_validate_and_store_innovations ==
    /\ gpc = "input" /\ gvariant = "full"
    /\ gpc' = "validated"
    /\ validated' = validate_and_store_innovations(results, gcfg, 1)
    /\ UNCHANGED <<gvariant, results, gcfg, gprev, glast>>
    /\ UNCHANGED <<persist_calls, database_records_created>>
    /\ UNCHANGED NotG

call_validate_innovations ==
    /\ gpc = "input" /\ gvariant = "simple"
    /\ gpc' = "validated"
    /\ validated' = validate_innovations(results, 1)
    /\ UNCHANGED <<gvariant, results, gcfg, gprev, glast>>
    /\ UNCHANGED <<persist_calls, database_records_created>>
    /\ UNCHANGED NotG

\* the thresholds of the configuration are changed and the gate runs again on
\* the same results (lines 815-817 read them at every call)
revalidate_with_thresholds(cfg) ==
    /\ gpc = "validated"
    /\ cfg # gcfg
    /\ gcfg' = cfg
    /\ gprev' = validated
    /\ glast' = IF Looser(cfg, gcfg) THEN "looser" ELSE "other"
    /\ validated' = IF gvariant = "full"
                    THEN validate_and_store_innovations(results, cfg, 1)
                    ELSE validate_innovations(results, 1)
    /\ UNCHANGED <<gpc, gvariant, results>>
    /\ UNCHANGED <<persist_calls, database_records_created>>
    /\ UNCHANGED NotG

(* Persistence handoff: the accepted records go to the Persistence
   collaborator one at a time, in the order the gate forwarded them *)

\* a Persist failure that ends the handoff
persist_record_fails_aborts ==
    /\ gpc \in {"validated", "persisting"}
    /\ Len(persist_calls) < Len(validated)
    /\ gpc' = "stored"
    /\ persist_calls' = Append(persist_calls, <<validated[Len(persist_calls) + 1], FALSE>>)
    /\ UNCHANGED <<gvariant, results, gcfg, validated, gprev, glast, database_records_created>>
    /\ UNCHANGED NotG

\* Persist returned success for the next accepted record
persist_record_succeeds ==
    /\ gpc \in {"validated", "persisting"}
    /\ Len(persist_calls) < Len(validated)
    /\ gpc' = "persisting"
    /\ persist_calls' = Append(persist_calls, <<validated[Len(persist_calls) + 1], TRUE>>)
    /\ database_records_created' = database_records_created + 1
    /\ UNCHANGED <<gvariant, results, gcfg, validated, gprev, glast>>
    /\ UNCHANGED NotG

\* Persist failed for the next accepted record: logged, the loop goes on
persist_record_fails ==
    /\ gpc \in {"validated", "persisting"}
    /\ Len(persist_calls) < Len(validated)
    /\ gpc' = "persisting"
    /\ persist_calls' = Append(persist_calls, <<validated[Len(persist_calls) + 1], FALSE>>)
    /\ UNCHANGED <<gvariant, results, gcfg, validated, gprev, glast, database_records_created>>
    /\ UNCHANGED NotG

\* every accepted record has been handed over: the count goes into the cycle result
persistence_handoff_done ==
    /\ gpc \in {"validated", "persisting"}
    /\ Len(persist_calls) = Len(validated)
    /\ gpc' = "stored"
    /\ UNCHANGED <<gvariant, results, gcfg, validated, gprev, glast>>
    /\ UNCHANGED <<persist_calls, database_records_created>>
    /\ UNCHANGED NotG

NextGate ==
    \/ call_validate_and_store_innovations
    \/ call_validate_innovations
    \/ \E cfg \in QualityThresholds : revalidate_with_thresholds(cfg)
    \/ persist_record_succeeds
    \/ persist_record_fails
    \/ persistence_handoff_done

InitGate == QInit /\ DInit /\ PIdle /\ GInit /\ SIdle /\ EIdle /\ LIdle /\ MIdle /\ RIdle /\ CIdle /\ HIdle /\ JIdle

SpecGate == InitGate /\ [][NextGate]_vars

----------------------------------------------------------------------------
(* Scorer: the completeness score.  A field is held as the kind of value it
   has: None, an empty string, list or dict ("empty"), a dict whose values are
   all None ("unpopulated"), or a value with content. *)

ScalarKinds == {"none", "text"}
ListKinds == {"none", "empty", "items"}
DictKinds == {"none", "empty", "unpopulated", "populated"}

\* the values the thirteen scored fields can hold
ScoredResults ==
    [title : ScalarKinds, description : ScalarKinds,
     innovation_type : ScalarKinds, problem_solved : ScalarKinds,
     technical_approach : ScalarKinds, development_stage : ScalarKinds,
     technical_stack : ListKinds, creators : ListKinds,
     organization_affiliation : ScalarKinds, location : ScalarKinds,
     contact_information : DictKinds, use_cases : ListKinds,
     funding_sources : ListKinds]

core_fields == {"title", "description", "innovation_type", "problem_solved"}

standard_fields ==
    {"technical_approach", "development_stage", "technical_stack", "creators",
     "organization_affiliation", "location", "contact_information",
     "use_cases", "funding_sources"}

CoreWeight == 2
StandardWeight == 1

\* Python's truth value: None, "", [] and {} are false, anything else is true
Truthy(kind) == kind \notin {"none", "empty"}

\* a denominator that counts every field once
total_fields_unweighted(r) ==
    Cardinality(core_fields) + Cardinality(standard_fields)

\* total_fields after the two loops
total_fields(r) ==
    CoreWeight * Cardinality(core_fields)
      + StandardWeight * Cardinality(standard_fields)

\* filled_fields after the two loops
filled_fields(r) ==
    CoreWeight * Cardinality({f \in core_fields : Truthy(r[f])})
      + StandardWeight * Cardinality({f \in standard_fields : Truthy(r[f])})

\* filled_fields / total_fields if total_fields > 0 else 0.0
calculate_completeness_score(r) ==
    IF total_fields(r) > 0 THEN <<filled_fields(r), total_fields(r)>>
    ELSE <<0, 1>>

SInit ==
    /\ spc = "unscored"
    /\ fields \in ScoredResults
    /\ score = <<0, 1>>

call_calculate_completeness_score ==
    /\ spc = "unscored"
    /\ spc' = "scored"
    /\ score' = calculate_completeness_score(fields)
    /\ UNCHANGED fields
    /\ UNCHANGED NotS

NextScore ==
    \/ call_calculate_completeness_score

InitScore == QInit /\ DInit /\ PIdle /\ GIdle /\ SInit /\ EIdle /\ LIdle /\ MIdle /\ RIdle /\ CIdle /\ HIdle /\ JIdle

SpecScore == InitScore /\ [][NextScore]_vars

----------------------------------------------------------------------------
(* Extraction of one page: extract_innovation_data and its helpers.  The
   "full" helpers are those of perplexity_african_ai.py lines 272-683, the
   "simple" ones those of enhanced_crawl4ai.py lines 88-282.  A value is held
   as "none" or as a tag naming where it came from:  the structured (LLM)
   answer, the patterns found in the page text ("pat"), a followed link. *)

\* crawl_result.extracted_content: missing or empty; text that is not JSON;
\* JSON null or a number; a JSON array or string; a JSON object one of whose
\* sections is not an object; a JSON object of well-formed sections
AnswerKinds ==
    {"absent", "not_json", "json_null", "json_array", "bad_section", "object"}

\* what a well-formed structured answer can hold
LLMContent ==
    {c \in [title : {"none", "llm"}, description : {"none", "llm"},
            location : {"none", "llm_allow", "llm_other"},
            contact_section : BOOLEAN,
            email : {"none", "llm"}, github : {"none", "llm"},
            technical_approach : {"none", "llm"},
            technical_stack : {"none", "one", "many"},
            funding_sources : {"none", "llm"},
            funding_amounts : {"none", "llm"}] :
        ~c.contact_section => c.email = "none" /\ c.github = "none"}

\* the keys of the dict _pattern_based_extraction returns
PatternData ==
    [emails : BOOLEAN, github_repos : BOOLEAN, funding_amounts : BOOLEAN,
     african_locations : {"absent", "allow", "other"}]

\* what link-following brings back: not followed, no data, the patterns of one
\* linked page, or an exception outside the per-link handler
LinkOutcomes == {"not_followed", "no_data", "data", "raises"}

\* the truth value of the contact_information dict, and any(values())
ContactTruthy(c) == c.dict = "keys"
AnyContactValue(c) == c.email # "none" \/ c.github # "none"

\* the four countries of the confidence boost
AllowListed(loc) == loc \in {"llm_allow", "pat_allow"}

\* lines 272-374 (full) and 120-148 (simple): the sections of the answer
map_json_to_result(r, c, v) ==
    IF v = "full"
    THEN [r EXCEPT !.title = c.title, !.description = c.description,
                   !.technical_approach = c.technical_approach,
                   !.technical_stack = c.technical_stack,
                   !.location = c.location,
                   !.contact_information =
                       IF c.contact_section
                       THEN [dict |-> "keys", email |-> c.email, github |-> c.github]
                       ELSE @,
                   !.funding_sources = c.funding_sources,
                   !.funding_amounts = c.funding_amounts]
    ELSE [r EXCEPT !.title = c.title, !.description = c.description,
                   !.technical_approach = c.technical_approach,
                   !.technical_stack = c.technical_stack]

\* lines 497-507 (full) and 181-185 (simple): the contact part of the merge
merge_contact(c, pd, v) ==
    LET c0 == IF ContactTruthy(c) THEN c ELSE [c EXCEPT !.dict = "empty"]
        c1 == IF pd.emails
              THEN [c0 EXCEPT !.dict = "keys", !.email = "pat"] ELSE c0
        c2 == IF v = "full" /\ pd.github_repos
              THEN [c1 EXCEPT !.dict = "keys", !.github = "pat"] ELSE c1
    IN  c2

\* lines 493-523 (full) and 177-195 (simple)
merge_pattern_data(r, pd, v) ==
    [r EXCEPT !.contact_information = merge_contact(@, pd, v),
              !.funding_amounts =
                  IF pd.funding_amounts /\ @ = "none" THEN "pat" ELSE @,
              !.location =
                  IF pd.african_locations # "absent" /\ @ = "none"
                  THEN (IF pd.african_locations = "allow" THEN "pat_allow" ELSE "pat_other")
                  ELSE @]

\* lines 573-594 (full): the data of one followed link; lines 209-213
\* (simple): nothing
merge_extraction_data(r, links, v) ==
    IF v = "full" /\ links = "data"
    THEN [r EXCEPT !.contact_information =
                       IF ContactTruthy(@) /\ @.email = "none"
                       THEN [@ EXCEPT !.email = "link"] ELSE @,
                   !.technical_stack = IF @ = "none" THEN "link" ELSE @]
    ELSE r

\* the confidence score in hundredths: the base and the five boosts
BaseConfidence == 50
BoostStructured == 20
BoostContact == 10
BoostLocation == 15
BoostTechnical == 10
BoostFunding == 10

\* a score that is not capped
Uncapped(c) == c

\* min(1.0, confidence)
Capped(c) == Min(100, c)

\* lines 629-654 (full) and 248-265 (simple)
calculate_confidence_score(r, answer, v) ==
    Capped(BaseConfidence
        + (IF answer # "absent" THEN BoostStructured ELSE 0)
        + (IF ContactTruthy(r.contact_information)
              /\ AnyContactValue(r.contact_information)
           THEN BoostContact ELSE 0)
        + (IF AllowListed(r.location) THEN BoostLocation ELSE 0)
        + (IF v = "full" /\ r.technical_stack = "many" THEN BoostTechnical ELSE 0)
        + (IF v = "full" /\ (r.funding_sources # "none" \/ r.funding_amounts # "none")
           THEN BoostFunding ELSE 0))

\* one review flag
Flag(cond, text) == IF cond THEN <<(<<text, "">>)>> ELSE <<>>

\* lines 656-683 (full; line 676 read as "and not") and 267-282 (simple)
generate_validation_flags(r, v) ==
    Flag(r.title = "none", "Missing title")
    \o Flag(r.description = "none", "Missing description")
    \o Flag(r.location = "none", "No African location identified")
    \o (IF v = "full"
        THEN Flag(~ContactTruthy(r.contact_information)
                     \/ ~AnyContactValue(r.contact_information),
                  "No contact information found")
             \o Flag(r.funding_amounts # "none" /\ r.funding_sources = "none",
                     "Funding amounts mentioned without sources")
             \o Flag(r.technical_approach = "none" /\ r.technical_stack = "none",
                     "Limited technical details")
        ELSE <<>>)

\* a failed result without a flag
FailedResultUnflagged(e) == NewResult(FALSE)

\* lines 40-48: the result built by the except branch
FailedResult(e) ==
    [NewResult(FALSE) EXCEPT !.validation_flags = <<(<<"Extraction failed", e>>)>>]

\* the pages a crawl can give to the helpers of variant v
Pages(v) ==
    {[NoPage EXCEPT !.raises = TRUE]}
    \cup
    {pg \in [raises : {FALSE}, answer : AnswerKinds, llm : LLMContent,
             pattern : PatternData, links : {"pending"}] :
        /\ pg.answer # "object" => pg.llm = NoPage.llm
        /\ v = "simple" =>
              /\ pg.llm.location = "none" /\ ~pg.llm.contact_section
              /\ pg.llm.funding_sources = "none" /\ pg.llm.funding_amounts = "none"
              /\ ~pg.pattern.github_repos}

EInit ==
    /\ epc = "start"
    /\ evariant \in {"full", "simple"}
    /\ page = NoPage
    /\ extracted_data = NewResult(TRUE)
    /\ mapped = NewResult(TRUE)
    /\ raised = ""

\* lines 11-20: await self.crawler.arun(...), which returns the page or raises
crawler_arun ==
    /\ epc = "start"
    /\ \E pg \in Pages(evariant) :
          /\ page' = pg
          /\ IF pg.raises
             THEN /\ epc' = "done"
                  /\ raised' = "crawl failed"
                  /\ extracted_data' = FailedResult("crawl failed")
             ELSE /\ epc' = "crawled"
                  /\ UNCHANGED <<raised, extracted_data>>
    /\ UNCHANGED <<evariant, mapped>>
    /\ UNCHANGED NotE

\* what json.loads and the mapper raise that _process_extraction_result does
\* not catch: "x in None" is a TypeError, "str.get" an AttributeError
MapperException(answer) ==
    CASE answer = "json_null" -> "TypeError"
      [] answer = "bad_section" -> "AttributeError"
      [] OTHER -> ""

\* lines 88-118: _process_extraction_result, and lines 40-48 when it raises
process_extraction_result ==
    /\ epc = "crawled"
    /\ IF MapperException(page.answer) # ""
       THEN /\ epc' = "done"
            /\ raised' = MapperException(page.answer)
            /\ extracted_data' = FailedResult(MapperException(page.answer))
            /\ UNCHANGED mapped
       ELSE /\ epc' = "processed"
            /\ mapped' = IF page.answer = "object"
                         THEN map_json_to_result(NewResult(TRUE), page.llm, evariant)
                         ELSE NewResult(TRUE)
            /\ extracted_data' = merge_pattern_data(mapped', page.pattern, evariant)
            /\ UNCHANGED raised
    /\ UNCHANGED <<evariant, page>>
    /\ UNCHANGED NotE

\* the scored fields of a result by kind of value; the scored fields the
\* extraction model does not follow stay at their default, None
ScoredKinds(r) ==
    [title |-> IF r.title = "none" THEN "none" ELSE "text",
     description |-> IF r.description = "none" THEN "none" ELSE "text",
     innovation_type |-> "none", problem_solved |-> "none",
     technical_approach |-> IF r.technical_approach = "none" THEN "none" ELSE "text",
     development_stage |-> "none",
     technical_stack |-> IF r.technical_stack = "none" THEN "none" ELSE "items",
     creators |-> "none", organization_affiliation |-> "none",
     location |-> IF r.location = "none" THEN "none" ELSE "text",
     contact_information |->
         IF ~ContactTruthy(r.contact_information) THEN "none"
         ELSE IF AnyContactValue(r.contact_information) THEN "populated"
         ELSE "unpopulated",
     use_cases |-> "none",
     funding_sources |-> IF r.funding_sources = "none" THEN "none" ELSE "items"]

\* lines 34-36: the two scores and the flags of a result
validate_and_score(r, answer, v) ==
    [r EXCEPT
        !.data_completeness_score = calculate_completeness_score(ScoredKinds(r)),
        !.confidence_score = calculate_confidence_score(r, answer, v),
        !.validation_flags = generate_validation_flags(r, v)]

\* the scores and the flags taken before the data of the links is merged
score_then_follow_links(lk) ==
    /\ epc = "processed"
    /\ evariant = "simple" => lk = "not_followed"
    /\ epc' = "done"
    /\ page' = [page EXCEPT !.links = lk]
    /\ IF lk = "raises"
       THEN /\ raised' = "link-following failed"
            /\ extracted_data' = FailedResult("link-following failed")
       ELSE /\ extracted_data' =
                   merge_extraction_data(
                       validate_and_score(extracted_data, page.answer, evariant),
                       lk, evariant)
            /\ UNCHANGED raised
    /\ UNCHANGED <<evariant, mapped>>
    /\ UNCHANGED NotE

\* lines 26-38: link-following, its merge, then the two scores and the flags
follow_links_and_score(lk) ==
    /\ epc = "processed"
    /\ evariant = "simple" => lk = "not_followed"
    /\ epc' = "done"
    /\ page' = [page EXCEPT !.links = lk]
    /\ IF lk = "raises"
       THEN /\ raised' = "link-following failed"
            /\ extracted_data' = FailedResult("link-following failed")
       ELSE /\ extracted_data' =
                   validate_and_score(
                       merge_extraction_data(extracted_data, lk, evariant),
                       page.answer, evariant)
            /\ UNCHANGED raised
    /\ UNCHANGED <<evariant, mapped>>
    /\ UNCHANGED NotE

NextExtract ==
    \/ crawler_arun
    \/ process_extraction_result
    \/ \E lk \in LinkOutcomes : follow_links_and_score(lk)

InitExtract == QInit /\ DInit /\ PIdle /\ GIdle /\ SIdle /\ EInit /\ LIdle /\ MIdle /\ RIdle /\ CIdle /\ HIdle /\ JIdle

SpecExtract == InitExtract /\ [][NextExtract]_vars

----------------------------------------------------------------------------
(* Link-following, perplexity_african_ai.py lines 525-571.  A link is held as
   what its anchor text matches: none of the keywords ("plain"), one of about /
   team / product / demo / github / paper ("keyword"), one of docs / wiki /
   readme ("docs"), or one of each ("both"). *)

LinkKinds == {"plain", "keyword", "docs", "both"}

\* result.links[:5] and priority_links[:3]
LinkScanLimit == 5
LinkFollowLimit == 3

\* lines 540-550: the hrefs appended for one link
AppendsFor(kind, ctype, k) ==
    (IF kind \in {"keyword", "both"} THEN <<k>> ELSE <<>>)
    \o (IF ctype = "GITHUB_REPOSITORY" /\ kind \in {"docs", "both"} THEN <<k>> ELSE <<>>)

\* lines 539-550: the loop over the first five links
RECURSIVE PriorityLinks(_, _, _)
PriorityLinks(links, ctype, k) ==
    IF k > Min(LinkScanLimit, Len(links)) THEN <<>>
    ELSE AppendsFor(links[k], ctype, k) \o PriorityLinks(links, ctype, k + 1)

\* every chosen link is fetched
ToFetchAll(pl) == pl

\* line 553: priority_links[:3]
ToFetch(pl) == SubSeq(pl, 1, Min(LinkFollowLimit, Len(pl)))

\* the max_depth given to extract_innovation_data with follow_links=True:
\* 1 is what the orchestrator passes (line 783)
CallerMaxDepths == {1, 2}

\* enhanced_crawl4ai.py line 28: _follow_related_links(result, content_type, max_depth - 1)
FollowDepth(max_depth) == max_depth - 1

LInit ==
    /\ lpc = "idle"
    /\ lcontent_type \in {"GITHUB_REPOSITORY", "INNOVATION_PROFILE"}
    /\ ldepth \in {FollowDepth(d) : d \in CallerMaxDepths}
    /\ llinks \in SeqUpTo(LinkKinds, MaxLinks)
    /\ priority_links = <<>>
    /\ lidx = 1
    /\ fetched = 0
    /\ additional_data = {}

\* lines 531-550: the depth test and the choice of the links
follow_related_links_start ==
    /\ lpc = "idle"
    /\ IF ldepth <= 0
       THEN lpc' = "returned" /\ UNCHANGED priority_links
       ELSE /\ lpc' = "fetching"
            /\ priority_links' = PriorityLinks(llinks, lcontent_type, 1)
    /\ UNCHANGED <<lcontent_type, ldepth, llinks, lidx, fetched, additional_data>>
    /\ UNCHANGED NotL

\* lines 554-565: the linked page is fetched and its patterns are stored
link_fetch_returns ==
    /\ lpc = "fetching"
    /\ lidx <= Len(ToFetch(priority_links))
    /\ fetched' = fetched + 1
    /\ additional_data' = additional_data \cup {priority_links[lidx]}
    /\ lidx' = lidx + 1
    /\ UNCHANGED <<lpc, lcontent_type, ldepth, llinks, priority_links>>
    /\ UNCHANGED NotL

\* lines 567-569: the fetch raises, the handler logs and continues
link_fetch_raises ==
    /\ lpc = "fetching"
    /\ lidx <= Len(ToFetch(priority_links))
    /\ fetched' = fetched + 1
    /\ lidx' = lidx + 1
    /\ UNCHANGED <<lpc, lcontent_type, ldepth, llinks, priority_links, additional_data>>
    /\ UNCHANGED NotL

\* line 571: return additional_data
follow_related_links_return ==
    /\ lpc = "fetching"
    /\ lidx > Len(ToFetch(priority_links))
    /\ lpc' = "returned"
    /\ UNCHANGED <<lcontent_type, ldepth, llinks, priority_links, lidx, fetched,
                   additional_data>>
    /\ UNCHANGED NotL

NextLinks ==
    \/ follow_related_links_start
    \/ link_fetch_returns
    \/ link_fetch_raises
    \/ follow_related_links_return

InitLinks == QInit /\ DInit /\ PIdle /\ GIdle /\ SIdle /\ EIdle /\ LInit /\ MIdle /\ RIdle /\ CIdle /\ HIdle /\ JIdle

SpecLinks == InitLinks /\ [][NextLinks]_vars

----------------------------------------------------------------------------
(* Collector missions, lines 386-418, 460-516, 587-616 and 656-689: a fixed
   battery of search queries, each followed by the extraction of targets from
   the response, and a cap on the list returned. *)

Missions == {"academic", "innovation", "news", "community"}

\* the number of targets one search response can yield
ResponseSizes == {0, 4, 12}

\* the length of the query lists: academic_queries, github_queries followed by
\* startup_queries, news_queries, community_queries
QueryCount(m) ==
    CASE m = "academic" -> 4
      [] m = "innovation" -> 4 + 3
      [] m = "news" -> 3
      [] m = "community" -> 4

AcademicCap == 20
InnovationCap == 30
NewsCap == 15
CommunityCap == 10
StartupResponseCap == 10

\* the slice of the return statement
MissionCap(m) ==
    CASE m = "academic" -> AcademicCap
      [] m = "innovation" -> InnovationCap
      [] m = "news" -> NewsCap
      [] m = "community" -> CommunityCap

\* lines 552-585: the startup queries (the last three of the innovation
\* mission) keep at most ten targets of one response
Extracted(m, q, n) ==
    IF m = "innovation" /\ q > 4 THEN Min(StartupResponseCap, n) ELSE n

\* a return statement without the slice
mission_result_uncut(ts, m) == ts

\* return targets[:cap]
mission_result(ts, m) == SubSeq(ts, 1, Min(MissionCap(m), Len(ts)))

MInit ==
    /\ mpc = "idle"
    /\ mission \in Missions
    /\ mq = 1
    /\ mresp = <<>>
    /\ missued = <<>>
    /\ mtargets = <<>>
    /\ mslept = <<>>
    /\ mout = <<>>

\* the mission is called: targets = [] and the loop begins
run_collector_mission ==
    /\ mpc = "idle"
    /\ mpc' = "querying"
    /\ missued' = [q \in 1..QueryCount(mission) |-> 0]
    /\ UNCHANGED <<mission, mq, mresp, mtargets, mslept, mout>>
    /\ UNCHANGED NotM

\* a query that raises ends the mission with what it has
query_raises_aborts ==
    /\ mpc = "querying"
    /\ mq <= QueryCount(mission)
    /\ missued' = [missued EXCEPT ![mq] = @ + 1]
    /\ mresp' = Append(mresp, -1)
    /\ mpc' = "returned"
    /\ mout' = mission_result(mtargets, mission)
    /\ mslept' = Append(mslept, FALSE)
    /\ UNCHANGED <<mission, mq, mtargets>>
    /\ UNCHANGED NotM

\* one turn of the loop: the query is answered, its targets are appended and
\* the coroutine sleeps (lines 402-412)
query_returns(n) ==
    /\ mpc = "querying"
    /\ mq <= QueryCount(mission)
    /\ missued' = [missued EXCEPT ![mq] = @ + 1]
    /\ mresp' = Append(mresp, n)
    /\ mtargets' = mtargets \o [k \in 1..Extracted(mission, mq, n) |-> <<mq, k>>]
    /\ mslept' = Append(mslept, TRUE)
    /\ mq' = mq + 1
    /\ UNCHANGED <<mpc, mission, mout>>
    /\ UNCHANGED NotM

\* one turn of the loop: the query or the extraction raises, the rest of the
\* try block (the sleep included) is skipped, the handler logs and continues
\* with the next query (lines 414-416)
query_raises ==
    /\ mpc = "querying"
    /\ mq <= QueryCount(mission)
    /\ missued' = [missued EXCEPT ![mq] = @ + 1]
    /\ mresp' = Append(mresp, -1)
    /\ mslept' = Append(mslept, FALSE)
    /\ mq' = mq + 1
    /\ UNCHANGED <<mpc, mission, mtargets, mout>>
    /\ UNCHANGED NotM

\* the loop is over: return targets[:cap]
mission_return ==
    /\ mpc = "querying"
    /\ mq > QueryCount(mission)
    /\ mpc' = "returned"
    /\ mout' = mission_result(mtargets, mission)
    /\ UNCHANGED <<mission, mq, mresp, missued, mtargets, mslept>>
    /\ UNCHANGED NotM

NextMission ==
    \/ run_collector_mission
    \/ \E n \in ResponseSizes : query_returns(n)
    \/ query_raises
    \/ mission_return

InitMission == QInit /\ DInit /\ PIdle /\ GIdle /\ SIdle /\ EIdle /\ LIdle /\ MInit /\ RIdle /\ CIdle /\ HIdle /\ JIdle

SpecMission == InitMission /\ [][NextMission]_vars

----------------------------------------------------------------------------
(* Cycle reporter: _generate_cycle_recommendations, lines 859-897, and the
   simplified orchestrator's _generate_recommendations, lines 1100-1115.
   A rate is held as a fraction; a division by zero is an outcome. *)

MaxReport == 3

ContentTypes == {"github_repository", "news_article"}

\* location of a result: None, a text naming a primary country, another text
Locations == {"none", "primary", "elsewhere"}

\* a failed result carries no extracted field; completeness over 17 as in the gate
ReportedResults ==
    [success : {FALSE}, completeness : {0}, location : {"none"},
     content_type : ContentTypes]
    \cup [success : {TRUE}, completeness : CompletenessValues,
          location : Locations, content_type : ContentTypes]

Div(a, b) ==
    IF b = 0 THEN [err |-> TRUE, num |-> 0, den |-> 1]
    ELSE [err |-> FALSE, num |-> a, den |-> b]

\* the literal 0 of the conditional expressions
Zero == [err |-> FALSE, num |-> 0, den |-> 1]

\* q < n / d
Below(q, n, d) == q.num * d < n * q.den

Successes(rs) == {k \in DOMAIN rs : rs[k].success}

RECURSIVE SumCompleteness(_, _)
SumCompleteness(rs, k) ==
    IF k > Len(rs) THEN 0
    ELSE (IF rs[k].success THEN rs[k].completeness ELSE 0) + SumCompleteness(rs, k + 1)

\* the quotient without the test for an empty list
success_rate_unguarded(rs) == Div(Cardinality(Successes(rs)), Len(rs))

\* line 867 (1105): ... / len(extraction_results) if extraction_results else 0
success_rate(rs) ==
    IF Len(rs) # 0 THEN Div(Cardinality(Successes(rs)), Len(rs)) ELSE Zero

\* an average taken over every result, failed ones included
avg_completeness_over_all(rs) ==
    IF Len(rs) # 0 THEN Div(SumCompleteness(rs, 1), 17 * Len(rs)) ELSE Zero

\* lines 873-874 (1110): the mean over the successful results, 0 without any
avg_completeness(rs) ==
    IF Successes(rs) # {}
    THEN Div(SumCompleteness(rs, 1), 17 * Cardinality(Successes(rs)))
    ELSE Zero

\* every result that has a location, whatever it names
african_locations_any_location(rs) == {k \in DOMAIN rs : rs[k].location # "none"}

\* lines 880-882: results whose location is set and contains a primary country
african_locations(rs) == {k \in DOMAIN rs : rs[k].location = "primary"}

\* lines 888-891: successes per content type
content_type_performance(rs) ==
    [t \in {rs[k].content_type : k \in Successes(rs)} |->
        Cardinality({k \in Successes(rs) : rs[k].content_type = t})]

\* first position at which type t succeeded (the insertion order of the dict)
FirstSuccess(rs, t) ==
    CHOOSE k \in Successes(rs) :
        /\ rs[k].content_type = t
        /\ \A j \in Successes(rs) : rs[j].content_type = t => k <= j

\* line 893: max over the dict by count, the first inserted on a tie
best_performing_type(rs) ==
    LET perf == content_type_performance(rs) IN
    IF DOMAIN perf = {} THEN "None"
    ELSE CHOOSE t \in DOMAIN perf : \A u \in DOMAIN perf :
            \/ perf[t] > perf[u]
            \/ perf[t] = perf[u] /\ FirstSuccess(rs, t) <= FirstSuccess(rs, u)

Rec(cond, text, arg) == IF cond THEN << <<text, arg>> >> ELSE <<>>

\* cycle_result.innovations_extracted: the number of successful extractions
count_innovations_extracted(rs) == Cardinality(Successes(rs))

\* lines 864-897
generate_cycle_recommendations(rs, extracted) ==
    LET sr == success_rate(rs)
        ac == avg_completeness(rs)
    IN  IF sr.err \/ ac.err THEN [raised |-> TRUE, list |-> <<>>]
        ELSE [raised |-> FALSE, list |->
                Rec(Below(sr, 7, 10),
                    "Improve URL discovery and validation before extraction", "")
             \o Rec(Below(ac, 1, 2),
                    "Enhance extraction schemas and LLM prompts for better data capture", "")
             \o Rec(Cardinality(african_locations(rs)) * 10 < extracted * 8,
                    "Improve African relevance filtering in target discovery", "")
             \o Rec(best_performing_type(rs) # "None",
                    "Increase focus on targets in next cycle", best_performing_type(rs))]

\* lines 1103-1115
generate_recommendations(rs) ==
    LET sr == success_rate(rs)
        ac == avg_completeness(rs)
    IN  IF sr.err \/ ac.err THEN [raised |-> TRUE, list |-> <<>>]
        ELSE [raised |-> FALSE, list |->
                Rec(Below(sr, 7, 10), "Improve URL discovery and validation", "")
             \o Rec(Below(ac, 1, 2),
                    "Enhance extraction schemas for better data capture", "")]

RInit ==
    /\ rpc = "start"
    /\ rvariant \in {"full", "simple"}
    /\ extraction_results \in SeqUpTo(ReportedResults, MaxReport)
    /\ innovations_extracted = count_innovations_extracted(extraction_results)
    /\ recommendations = <<>>
    /\ rraised = FALSE

call_generate_cycle_recommendations ==
    /\ rpc = "start" /\ rvariant = "full"
    /\ rpc' = "done"
    /\ recommendations' =
          generate_cycle_recommendations(extraction_results, innovations_extracted).list
    /\ rraised' =
          generate_cycle_recommendations(extraction_results, innovations_extracted).raised
    /\ UNCHANGED <<rvariant, extraction_results, innovations_extracted>>
    /\ UNCHANGED NotR

call_generate_recommendations ==
    /\ rpc = "start" /\ rvariant = "simple"
    /\ rpc' = "done"
    /\ recommendations' = generate_recommendations(extraction_results).list
    /\ rraised' = generate_recommendations(extraction_results).raised
    /\ UNCHANGED <<rvariant, extraction_results, innovations_extracted>>
    /\ UNCHANGED NotR

NextReport ==
    \/ call_generate_cycle_recommendations
    \/ call_generate_recommendations

InitReport == QInit /\ DInit /\ PIdle /\ GIdle /\ SIdle /\ EIdle /\ LIdle /\ MIdle /\ RInit /\ CIdle /\ HIdle /\ JIdle

SpecReport == InitReport /\ [][NextReport]_vars

----------------------------------------------------------------------------
(* Cycles of one orchestrator: run_collection_cycle around the extraction
   queue and the reporter, the collection history, get_collection_stats
   (lines 899-918) and the simplified get_stats (lines 1117-1136).  The gate
   and the persistence handoff of a cycle are in the quality-gate component;
   the history entries hold the fields the statistics read. *)

MaxCycles == 2
MaxCycleTargets == 1

\* the configured concurrency of the full orchestrator's queue
CycleConcurrency == {1, 2}

\* what one extraction of a cycle can end with
CycleOutcomes ==
    { [success |-> FALSE, completeness |-> 0, location |-> "none",
       content_type |-> "news_article"],
      [success |-> TRUE, completeness |-> 17, location |-> "primary",
       content_type |-> "github_repository"] }

\* lines 792-802 (1058-1069): the failed result built when the extraction threw
FailedOutcome ==
    [success |-> FALSE, completeness |-> 0, location |-> "none",
     content_type |-> "news_article"]

InFlightOf(r) == {i \in DOMAIN r.tasks : r.tasks[i].st = "inflight"}

SetTask(r, i, st, res, threw_) ==
    (running \ {r}) \cup
        {[r EXCEPT !.tasks[i] = [st |-> st, res |-> res, threw |-> threw_]]}

CInit ==
    /\ cvariant \in {"full", "simple"}
    /\ cmax \in (IF cvariant = "full" THEN CycleConcurrency ELSE {1})
    /\ cycle_seq = 0
    /\ running = {}
    /\ collection_history = <<>>
    /\ stats = [message |-> "not called"]

\* d targets as the missions hand them over
DiscoveredTargets(d) ==
    [k \in 1..d |-> [priority |-> "MEDIUM", discovered_at |-> 0,
                     source_collector |-> "INNOVATION_DISCOVERY"]]

\* the targets queued: the discovered ones as _prioritize_targets returns
\* them, max_targets_per_cycle being MaxCycleTargets
Queued(d) ==
    1..Len(IF cvariant = "full"
           THEN prioritize_targets(DiscoveredTargets(d), MaxCycleTargets)
           ELSE prioritize_targets_simple(DiscoveredTargets(d)))

\* a cycle that starts while another one is under way
run_collection_cycle_start_reentrant(d) ==
    /\ cycle_seq < MaxCycles
    /\ cycle_seq' = cycle_seq + 1
    /\ running' = running \cup
          {[id |-> cycle_seq + 1, discovered |-> d,
            tasks |-> [i \in Queued(d) |->
                         [st |-> "waiting", res |-> FailedOutcome, threw |-> FALSE]]]}
    /\ UNCHANGED <<cvariant, cmax, collection_history, stats>>
    /\ UNCHANGED NotC

\* a cycle starts once the previous one has returned: d targets were
\* discovered and the prioritized ones are queued
run_collection_cycle_start(d) ==
    /\ running = {}
    /\ cycle_seq < MaxCycles
    /\ cycle_seq' = cycle_seq + 1
    /\ running' = running \cup
          {[id |-> cycle_seq + 1, discovered |-> d,
            tasks |-> [i \in Queued(d) |->
                         [st |-> "waiting", res |-> FailedOutcome, threw |-> FALSE]]]}
    /\ UNCHANGED <<cvariant, cmax, collection_history, stats>>
    /\ UNCHANGED NotC

\* line 775: a permit of the cycle's own semaphore (line 749) is taken; in the
\* simplified orchestrator the loop reaches the target (line 1040)
cycle_extract_begin(r, i) ==
    /\ r \in running
    /\ r.tasks[i].st = "waiting"
    /\ IF cvariant = "full"
       THEN SemaphoreFree(cmax - Cardinality(InFlightOf(r)))
       ELSE \A j \in 1..(i - 1) : r.tasks[j].st = "done"
    /\ running' = SetTask(r, i, "inflight", FailedOutcome, FALSE)
    /\ UNCHANGED <<cvariant, cmax, cycle_seq, collection_history, stats>>
    /\ UNCHANGED NotC

\* lines 779-790 (1044-1056): the extractor returned a result
cycle_extract_returns(r, i, res) ==
    /\ r \in running
    /\ r.tasks[i].st = "inflight"
    /\ running' = SetTask(r, i, "done", res, FALSE)
    /\ UNCHANGED <<cvariant, cmax, cycle_seq, collection_history, stats>>
    /\ UNCHANGED NotC

\* an exception of one extraction that ends the cycle without a result
cycle_extract_raises_aborts(r, i) ==
    /\ r \in running
    /\ r.tasks[i].st = "inflight"
    /\ running' = running \ {r}
    /\ UNCHANGED <<cvariant, cmax, cycle_seq, collection_history, stats>>
    /\ UNCHANGED NotC

\* lines 792-802 (1058-1069): the extractor threw, a failed result stands in
cycle_extract_raises(r, i) ==
    /\ r \in running
    /\ r.tasks[i].st = "inflight"
    /\ running' = SetTask(r, i, "done", FailedOutcome, TRUE)
    /\ UNCHANGED <<cvariant, cmax, cycle_seq, collection_history, stats>>
    /\ UNCHANGED NotC

ResultsOf(r) == [i \in 1..Len(r.tasks) |-> r.tasks[i].res]

CycleRecommendations(r) ==
    IF cvariant = "full"
    THEN generate_cycle_recommendations(ResultsOf(r), count_innovations_extracted(ResultsOf(r)))
    ELSE generate_recommendations(ResultsOf(r))

CycleResult(r, stored) ==
    [cycle_id |-> r.id,
     targets_discovered |-> r.discovered,
     targets_processed |-> Len(ResultsOf(r)),
     innovations_extracted |-> count_innovations_extracted(ResultsOf(r)),
     database_records_created |-> Cardinality(stored),
     recommendations |-> CycleRecommendations(r).list]

\* a return that replaces the latest entry of the history
run_collection_cycle_return_overwrites(r) ==
    /\ r \in running
    /\ \A i \in DOMAIN r.tasks : r.tasks[i].st = "done"
    /\ running' = running \ {r}
    /\ \E stored \in SUBSET Successes(ResultsOf(r)) :
          collection_history' =
              IF collection_history = <<>> THEN <<CycleResult(r, stored)>>
              ELSE [collection_history EXCEPT
                       ![Len(collection_history)] = CycleResult(r, stored)]
    /\ UNCHANGED <<cvariant, cmax, cycle_seq, stats>>
    /\ UNCHANGED NotC

\* the barrier has resolved (line 757; line 1071): the gate passes on
\* successful results only (lines 811-812), each accepted record is handed to
\* persistence and the stored ones are counted; the reporter runs and the
\* cycle's result is appended to the history; an exception of the reporter
\* ends the run without a result
run_collection_cycle_return(r) ==
    /\ r \in running
    /\ \A i \in DOMAIN r.tasks : r.tasks[i].st = "done"
    /\ running' = running \ {r}
    /\ \E stored \in SUBSET Successes(ResultsOf(r)) :
          collection_history' =
              IF CycleRecommendations(r).raised THEN collection_history
              ELSE Append(collection_history, CycleResult(r, stored))
    /\ UNCHANGED <<cvariant, cmax, cycle_seq, stats>>
    /\ UNCHANGED NotC

\* statistics read from the oldest entry of the history
get_collection_stats_oldest(h) ==
    IF Len(h) = 0 THEN [message |-> "No collection cycles completed yet"]
    ELSE LET latest == h[1] IN
         [latest_cycle_id |-> latest.cycle_id,
          total_cycles |-> Len(h),
          last_performance |->
             [targets_discovered |-> latest.targets_discovered,
              targets_processed |-> latest.targets_processed,
              innovations_extracted |-> latest.innovations_extracted,
              success_rate |->
                 IF latest.targets_processed > 0
                 THEN Div(latest.innovations_extracted, latest.targets_processed)
                 ELSE Zero],
          recommendations |-> latest.recommendations]

\* lines 902-918
get_collection_stats(h) ==
    IF Len(h) = 0 THEN [message |-> "No collection cycles completed yet"]
    ELSE LET latest == h[Len(h)] IN
         [latest_cycle_id |-> latest.cycle_id,
          total_cycles |-> Len(h),
          last_performance |->
             [targets_discovered |-> latest.targets_discovered,
              targets_processed |-> latest.targets_processed,
              innovations_extracted |-> latest.innovations_extracted,
              success_rate |->
                 IF latest.targets_processed > 0
                 THEN Div(latest.innovations_extracted, latest.targets_processed)
                 ELSE Zero],
          recommendations |-> latest.recommendations]

\* lines 1120-1136: the same computation, returned under the keys
\* latest_cycle_id, last_performance and recommendations
get_stats(h) == get_collection_stats(h)

call_get_collection_stats ==
    /\ cvariant = "full"
    /\ stats' = get_collection_stats(collection_history)
    /\ UNCHANGED <<cvariant, cmax, cycle_seq, running, collection_history>>
    /\ UNCHANGED NotC

call_get_stats ==
    /\ cvariant = "simple"
    /\ stats' = get_stats(collection_history)
    /\ UNCHANGED <<cvariant, cmax, cycle_seq, running, collection_history>>
    /\ UNCHANGED NotC

\* the steps of a cycle under way
CycleProgress ==
    \E r \in running :
        \/ \E i \in DOMAIN r.tasks : cycle_extract_begin(r, i)
        \/ \E i \in DOMAIN r.tasks, res \in CycleOutcomes : cycle_extract_returns(r, i, res)
        \/ \E i \in DOMAIN r.tasks : cycle_extract_raises(r, i)
        \/ run_collection_cycle_return(r)

NextCycle ==
    \/ \E d \in 0..(MaxCycleTargets + 1) : run_collection_cycle_start(d)
    \/ \E r \in running : \E i \in DOMAIN r.tasks : cycle_extract_begin(r, i)
    \/ \E r \in running : \E i \in DOMAIN r.tasks, res \in CycleOutcomes :
          cycle_extract_returns(r, i, res)
    \/ \E r \in running : \E i \in DOMAIN r.tasks : cycle_extract_raises(r, i)
    \/ \E r \in running : run_collection_cycle_return(r)
    \/ call_get_collection_stats
    \/ call_get_stats

InitCycle == QInit /\ DInit /\ PIdle /\ GIdle /\ SIdle /\ EIdle /\ LIdle /\ MIdle /\ RIdle /\ CInit /\ HIdle /\ JIdle

SpecCycle == InitCycle /\ [][NextCycle]_vars

\* the cycles alone, the statistics not being asked for
NextCycleRun ==
    \/ \E d \in 0..MaxCycleTargets : run_collection_cycle_start(d)
    \/ \E r \in running : \E i \in DOMAIN r.tasks : cycle_extract_begin(r, i)
    \/ \E r \in running : \E i \in DOMAIN r.tasks, res \in CycleOutcomes :
          cycle_extract_returns(r, i, res)
    \/ \E r \in running : \E i \in DOMAIN r.tasks : cycle_extract_raises(r, i)
    \/ \E r \in running : run_collection_cycle_return(r)

\* every extraction returns or throws, and a coroutine that can run is run
SpecCycleFair == InitCycle /\ [][NextCycleRun]_vars /\ WF_vars(CycleProgress)

----------------------------------------------------------------------------
(* _extract_github_targets_from_content, lines 518-550.  The text of a search
   response is a sequence of tokens: the prefix of a repository URL, words of
   characters of the class [\w\-\.] (a lone "." is a word of that class), and
   the delimiters "/" and " ". *)

MaxText == 6

UrlPrefix == "https://github.com/"

\* runs of characters the pattern's class [\w\-\.] accepts
ClassTokens == {"acme", "ai-tool", "."}

TextTokens == {UrlPrefix, "/", " "} \cup ClassTokens

\* a URL in running text starts the text or follows a blank
SearchTexts ==
    {c \in SeqUpTo(TextTokens, MaxText) :
        \A p \in 2..Len(c) : c[p] = UrlPrefix => c[p - 1] = " "}

\* the position after the longest run of class characters that starts at p
RECURSIVE RunEnd(_, _)
RunEnd(c, p) ==
    IF p <= Len(c) /\ c[p] \in ClassTokens THEN RunEnd(c, p + 1) ELSE p

\* lines 524-525: re.findall of https?://github\.com/[\w\-\.]+/[\w\-\.]+ ,
\* both quantifiers greedy; each match as its owner run and its repo run
RECURSIVE github_urls(_, _)
github_urls(c, p) ==
    IF p > Len(c) THEN <<>>
    ELSE IF c[p] # UrlPrefix THEN github_urls(c, p + 1)
    ELSE LET o == RunEnd(c, p + 1)
             r == RunEnd(c, o + 1)
         IN  IF o > p + 1 /\ o <= Len(c) /\ c[o] = "/" /\ r > o + 1
             THEN <<[owner |-> SubSeq(c, p + 1, o - 1),
                     repo |-> SubSeq(c, o + 1, r - 1)]>> \o github_urls(c, r)
             ELSE github_urls(c, p + 1)

\* lines 527-548: url.split('/') has five parts, the last two are owner and
\* repo_name; one target per match
extract_github_targets_from_content(c) ==
    LET urls == github_urls(c, 1) IN
    [k \in 1..Len(urls) |->
        [url |-> <<UrlPrefix>> \o urls[k].owner \o <<"/">> \o urls[k].repo,
         content_type |-> "GITHUB_REPOSITORY",
         priority |-> "MEDIUM",
         source_collector |-> "INNOVATION_DISCOVERY",
         metadata |-> [source |-> "github", owner |-> urls[k].owner,
                       repo_name |-> urls[k].repo,
                       discovery_method |-> "perplexity_search"]]]

HInit ==
    /\ hpc = "start"
    /\ search_content \in SearchTexts
    /\ github_targets = <<>>

call_extract_github_targets_from_content ==
    /\ hpc = "start"
    /\ hpc' = "done"
    /\ github_targets' = extract_github_targets_from_content(search_content)
    /\ UNCHANGED search_content
    /\ UNCHANGED NotH

NextGithub == call_extract_github_targets_from_content

InitGithub == QInit /\ DInit /\ PIdle /\ GIdle /\ SIdle /\ EIdle /\ LIdle /\ MIdle /\ RIdle /\ CIdle /\ HInit /\ JIdle

SpecGithub == InitGithub /\ [][NextGithub]_vars

----------------------------------------------------------------------------
(* The ETL monitor (backend/services/etl_monitor.py), the trigger endpoints
   and the background runs of backend/api/etl_live.py, and ETLJobContext as
   tests/test_monitoring.py uses it.  A datetime is a number of clock ticks,
   -1 standing for None; avg_runtime is left out. *)

MaxJobs == 2

Pipelines == {"news_pipeline", "enrichment_pipeline"}

JobNames == Pipelines \cup {"arxiv_scraper"}

\* timedelta(hours=24), line 157
StaleAfter == 24

\* no entry of job_statuses under this name
NoStatus ==
    [exists |-> FALSE, is_running |-> FALSE, last_run |-> -1, last_success |-> -1,
     last_error |-> "None", success_count |-> 0, error_count |-> 0,
     items_processed |-> 0, health_status |-> "unknown"]

NoResponse ==
    [pipeline |-> "none", was_running |-> FALSE, success |-> FALSE, message |-> "none"]

\* Python's truth value of what a call returned
PyTruthy(v) == v \notin {"None", "False"}

\* lines 96-115: the entry is created when missing, marked running, last_run set
start_job(js, job_name, t) ==
    [js EXCEPT ![job_name] =
        [(IF @.exists THEN @ ELSE [NoStatus EXCEPT !.exists = TRUE])
            EXCEPT !.is_running = TRUE, !.last_run = t]]

\* start_job has no return statement
start_job_returns == "None"

\* lines 148-167
calculate_health_status(status, t) ==
    IF status.is_running THEN "running"
    ELSE IF status.last_run = -1 THEN "never_run"
    ELSE IF t - status.last_run > StaleAfter THEN "stale"
    ELSE IF status.last_success = -1 THEN "failing"
    ELSE IF status.last_run > status.last_success THEN "failing"
    ELSE "healthy"

\* lines 117-146
complete_job(js, job_name, success, items, error_msg, t) ==
    IF ~js[job_name].exists THEN js
    ELSE LET status ==
                 IF success
                 THEN [js[job_name] EXCEPT
                          !.is_running = FALSE,
                          !.last_success = t,
                          !.success_count = @ + 1,
                          !.items_processed = @ + items,
                          !.last_error = "None"]
                 ELSE [js[job_name] EXCEPT
                          !.is_running = FALSE,
                          !.error_count = @ + 1,
                          !.last_error = error_msg]
         IN  [js EXCEPT ![job_name] =
                 [status EXCEPT !.health_status = calculate_health_status(status, t)]]

\* lines 117-118: the parameters complete_job can be given by keyword
CompleteJobParameters ==
    {"job_name", "success", "runtime", "items_processed", "error_msg"}

\* a call with a keyword that is no parameter raises TypeError before the body
KeywordsAccepted(kw) == kw \subseteq CompleteJobParameters

\* the monitor constructed without a status file; for each pipeline, a
\* background run may be under way, its job marked running by start_job
JInit ==
    /\ now = 0
    /\ active_runs \in [Pipelines -> {0, 1}]
    /\ job_statuses =
          [n \in JobNames |->
              IF n \in Pipelines /\ active_runs[n] = 1
              THEN start_job([m \in JobNames |-> NoStatus], n, 0)[n]
              ELSE NoStatus]
    /\ completed_runs = [p \in Pipelines |-> 0]
    /\ run_calls = [p \in Pipelines |-> 0]
    /\ response = NoResponse
    /\ tjobs = <<>>
    /\ tpos = 1
    /\ tpc = "idle"

\* etl_live.py lines 94-112 (news) and 154-197 (enrichment): the request is
\* answered from what start_job returns
trigger_pipeline(p) ==
    /\ tpc = "idle"
    /\ job_statuses' = start_job(job_statuses, p, now)
    /\ IF ~PyTruthy(start_job_returns)
       THEN /\ response' = [pipeline |-> p,
                            was_running |-> job_statuses[p].is_running,
                            success |-> FALSE,
                            message |-> "pipeline is already running"]
            /\ UNCHANGED active_runs
       ELSE /\ response' = [pipeline |-> p,
                            was_running |-> job_statuses[p].is_running,
                            success |-> TRUE,
                            message |-> "pipeline started"]
            /\ active_runs' = [active_runs EXCEPT ![p] = @ + 1]
    /\ UNCHANGED <<now, completed_runs, run_calls, tjobs, tpos, tpc>>
    /\ UNCHANGED NotJ

\* etl_live.py lines 317-376 and 492-509: the work returned; complete_job is
\* called with metrics=metrics, and lines 378-382 (514-517) catch what it raises
run_pipeline_completes(p, items) ==
    /\ tpc = "idle"
    /\ active_runs[p] > 0
    /\ IF KeywordsAccepted({"metrics"})
       THEN /\ job_statuses' = complete_job(job_statuses, p, TRUE, items, "None", now)
            /\ run_calls' = [run_calls EXCEPT ![p] = 1]
       ELSE /\ job_statuses' =
                   complete_job(job_statuses, p, FALSE, 0,
                       "complete_job() got an unexpected keyword argument 'metrics'", now)
            /\ run_calls' = [run_calls EXCEPT ![p] = 2]
    /\ active_runs' = [active_runs EXCEPT ![p] = @ - 1]
    /\ completed_runs' = [completed_runs EXCEPT ![p] = @ + 1]
    /\ UNCHANGED <<now, response, tjobs, tpos, tpc>>
    /\ UNCHANGED NotJ

\* etl_live.py lines 378-382 and 514-517: the work raised
run_pipeline_raises(p) ==
    /\ tpc = "idle"
    /\ active_runs[p] > 0
    /\ job_statuses' = complete_job(job_statuses, p, FALSE, 0, "work failed", now)
    /\ run_calls' = [run_calls EXCEPT ![p] = 1]
    /\ active_runs' = [active_runs EXCEPT ![p] = @ - 1]
    /\ completed_runs' = [completed_runs EXCEPT ![p] = @ + 1]
    /\ UNCHANGED <<now, response, tjobs, tpos, tpc>>
    /\ UNCHANGED NotJ

\* etl_live.py lines 510-512: a provider other than perplexity
run_enrichment_unsupported_provider ==
    /\ tpc = "idle"
    /\ active_runs["enrichment_pipeline"] > 0
    /\ job_statuses' = complete_job(job_statuses, "enrichment_pipeline", FALSE, 0,
                                    "Unsupported provider", now)
    /\ run_calls' = [run_calls EXCEPT !["enrichment_pipeline"] = 1]
    /\ active_runs' = [active_runs EXCEPT !["enrichment_pipeline"] = @ - 1]
    /\ completed_runs' = [completed_runs EXCEPT !["enrichment_pipeline"] = @ + 1]
    /\ UNCHANGED <<now, response, tjobs, tpos, tpc>>
    /\ UNCHANGED NotJ

NextEtl ==
    \/ \E p \in Pipelines : trigger_pipeline(p)
    \/ \E p \in Pipelines, items \in {0, 5} : run_pipeline_completes(p, items)
    \/ \E p \in Pipelines : run_pipeline_raises(p)
    \/ run_enrichment_unsupported_provider

InitEtl == QInit /\ DInit /\ PIdle /\ GIdle /\ SIdle /\ EIdle /\ LIdle /\ MIdle /\ RIdle /\ CIdle /\ HIdle /\ JInit

SpecEtl == InitEtl /\ [][NextEtl]_vars

----------------------------------------------------------------------------
(* ETLJobContext, etl_monitor.py lines 268-301, in the loop of
   test_monitoring.py lines 22-40: one job after the other, each in a with
   block whose body sleeps, adds its items and raises when the job fails *)

\* the jobs of the test: distinct names, an outcome and a number of items
TestJobs ==
    {js \in SeqUpTo([name : JobNames, success : BOOLEAN, items : {0, 25}], MaxJobs) :
        /\ \A i, k \in 1..Len(js) : i # k => js[i].name # js[k].name
        /\ \A i \in 1..Len(js) : ~js[i].success => js[i].items = 0}

\* __exit__ has no return statement: the exception of the body is not suppressed
exit_returns == "None"

TInit ==
    /\ now = 0
    /\ job_statuses = [n \in JobNames |-> NoStatus]
    /\ active_runs = [p \in Pipelines |-> 0]
    /\ completed_runs = [p \in Pipelines |-> 0]
    /\ run_calls = [p \in Pipelines |-> 0]
    /\ response = NoResponse
    /\ tjobs \in TestJobs
    /\ tpos = 1
    /\ tpc = "loop"

\* lines 274-277: __enter__; the body then sleeps
etl_job_context_enter ==
    /\ tpc = "loop"
    /\ tpos <= Len(tjobs)
    /\ job_statuses' = start_job(job_statuses, tjobs[tpos].name, now)
    /\ now' = now + 1
    /\ tpc' = "body"
    /\ UNCHANGED <<active_runs, completed_runs, run_calls, response, tjobs, tpos>>
    /\ UNCHANGED NotJ

\* lines 279-290: the body ended, by an exception when the job fails;
\* __exit__ records the job, and the exception leaves the with block and the
\* loop unless __exit__ returned a true value
etl_job_context_exit ==
    /\ tpc = "body"
    /\ job_statuses' =
          complete_job(job_statuses, tjobs[tpos].name, tjobs[tpos].success,
                       tjobs[tpos].items,
                       IF tjobs[tpos].success THEN "None" ELSE "Simulated job failure",
                       now)
    /\ IF ~tjobs[tpos].success /\ ~PyTruthy(exit_returns)
       THEN tpc' = "raised" /\ UNCHANGED tpos
       ELSE tpc' = "loop" /\ tpos' = tpos + 1
    /\ UNCHANGED <<now, active_runs, completed_runs, run_calls, response, tjobs>>
    /\ UNCHANGED NotJ

\* line 40 onwards: the loop is over
test_loop_ends ==
    /\ tpc = "loop"
    /\ tpos > Len(tjobs)
    /\ tpc' = "done"
    /\ UNCHANGED <<now, job_statuses, active_runs, completed_runs, run_calls,
                   response, tjobs, tpos>>
    /\ UNCHANGED NotJ

NextContext ==
    \/ etl_job_context_enter
    \/ etl_job_context_exit
    \/ test_loop_ends

InitContext == QInit /\ DInit /\ PIdle /\ GIdle /\ SIdle /\ EIdle /\ LIdle /\ MIdle /\ RIdle /\ CIdle /\ HIdle /\ TInit

SpecContext == InitContext /\ [][NextContext]_vars

----------------------------------------------------------------------------
(* Claims about the extraction queue *)

\* how many entries of the returned batch belong to target i
BatchCount(i) == Cardinality({k \in 1..Len(batch) : batch[k][1] = i})

\* C1: while a queue is processed, the number of extractions in flight (permit
\* acquired, not yet released) never exceeds max_concurrent, for every number
\* of targets and every max_concurrent >= 1.
C1_ConcurrencyBound == Cardinality(InFlight) <= max_concurrent

\* the bound is binding: max_concurrent >= 2 extractions in flight, another waits
C1_Witness ==
    /\ variant = "semaphore" /\ max_concurrent >= 2
    /\ Cardinality(InFlight) = max_concurrent
    /\ \E i \in Tasks : tstate[i] = "waiting"

\* C2: when the extraction of one target throws, the exception does not leave
\* the queue, and when the queue returns every other target has been extracted
\* to completion, as a success or as a failure.
C2_Isolation ==
    /\ qout # "raised"
    /\ pcq = "returned" =>
         \A i \in Tasks : threw[i] =>
             \A j \in Tasks \ {i} :
                 tstate[j] = "done" /\ taskres[j] \in {"ok", "failed"}

\* one extraction threw after and before others succeeded, and the queue returned
C2_Witness ==
    /\ pcq = "returned" /\ qout = "returned" /\ variant = "semaphore"
    /\ \E i, j, k \in Tasks :
          /\ i < j /\ j < k
          /\ threw[j] /\ taskres[i] = "ok" /\ taskres[k] = "ok"

\* C3: the batch returned after the barrier holds exactly one result, successful
\* or failed, for each submitted target: N results for N targets.
C3_OneResultPerTarget ==
    pcq = "returned" =>
        /\ Len(batch) = nTargets
        /\ \A i \in Tasks : BatchCount(i) = 1
        /\ \A k \in 1..Len(batch) : batch[k][2] = taskres[batch[k][1]]

\* a batch of more targets than permits with a success, a failed result and a throw
C3_Witness ==
    /\ pcq = "returned" /\ variant = "semaphore"
    /\ nTargets > max_concurrent /\ nTargets >= 3
    /\ Len(batch) = nTargets
    /\ \E i, j, k \in Tasks :
          /\ taskres[i] = "ok"
          /\ taskres[j] = "failed" /\ ~threw[j]
          /\ threw[k]

\* C4: the queue returns only after every launched extraction has resolved: in
\* no state has the queue returned while an extraction is in flight or waiting.
C4_Barrier ==
    pcq = "returned" =>
        /\ InFlight = {}
        /\ \A i \in Tasks : tstate[i] = "done" /\ taskres[i] # "none"

\* the barrier had to wait: more targets than permits, all resolved at the return
C4_Witness ==
    /\ pcq = "returned" /\ variant = "semaphore"
    /\ nTargets > max_concurrent
    /\ \A i \in Tasks : tstate[i] = "done"

----------------------------------------------------------------------------
(* Claims about deduplication *)

\* C5: after deduplication no two surviving targets share a synthetic id, the
\* survivor of an id is the first candidate that carried it, and the same
\* identifying attribute (the same repository, the same domain) discovered
\* twice in one cycle yields one surviving target.
C5_DedupOnePerAttribute ==
    dpc = "deduped" =>
        /\ \A i, j \in 1..Len(survivors) :
              i # j => SyntheticId(survivors[i]) # SyntheticId(survivors[j])
        /\ \A i \in 1..Len(survivors) : \E k \in 1..Len(candidates) :
              /\ candidates[k] = survivors[i]
              /\ \A j \in 1..(k - 1) :
                    SyntheticId(candidates[j]) # SyntheticId(survivors[i])
        /\ \A i, j \in 1..Len(survivors) :
              i # j => IdentifyingAttribute(survivors[i]) # IdentifyingAttribute(survivors[j])

----------------------------------------------------------------------------
(* Claims about prioritization *)

\* the positions of pin that were not returned
Dropped == (1..Len(pin)) \ {pout[k] : k \in 1..Len(pout)}

C7_CapKeepsFirst ==
    ppc = "done" =>
        /\ Len(pout) = Min(Len(pin), max_targets)
        /\ \A k \in 1..Len(pout) : pout[k] \in 1..Len(pin)
        /\ \A j, k \in 1..Len(pout) : j # k => pout[j] # pout[k]
        /\ \A d \in Dropped : \A k \in 1..Len(pout) :
              ~KeyLess(SortKey(pin[d]), SortKey(pin[pout[k]]))

----------------------------------------------------------------------------
(* Claims about the quality gate *)

Forwarded == {validated[k] : k \in 1..Len(validated)}

\* C8: a result is forwarded by the quality gate if and only if success = true
\* and completeness_score >= min_completeness and confidence_score >=
\* min_confidence and the number of validation flags <= max_flags, the three
\* thresholds being those of the configuration; a failed result is never
\* forwarded.
C8_GateIff ==
    gpc = "validated" =>
        \A k \in 1..Len(results) :
            k \in Forwarded <=>
                /\ results[k].success
                /\ results[k].completeness * 100 >= gcfg.min_completeness * 17
                /\ results[k].confidence >= gcfg.min_confidence
                /\ results[k].nflags <= gcfg.max_flags

\* C9: for a fixed set of results, lowering min_completeness or
\* min_confidence, or raising max_flags, never decreases the records that pass:
\* what passed under the stricter thresholds still passes under the looser.
C9_GateMonotone ==
    gpc = "validated" /\ glast = "looser" =>
        /\ \A k \in 1..Len(gprev) : gprev[k] \in Forwarded
        /\ Len(validated) >= Len(gprev)

\* looser thresholds let a second record through
C9_Witness ==
    /\ gpc = "validated" /\ gvariant = "full" /\ glast = "looser"
    /\ Len(gprev) = 1 /\ Len(validated) = 2

----------------------------------------------------------------------------
(* Claims about the scorer *)

ScoredFields == core_fields \cup standard_fields

Filled(kind) == kind \in {"text", "items", "populated"}

\* C11: the completeness score is (2 * number of filled core fields + number
\* of filled standard fields) / 17, where a map or sequence with no populated
\* content counts as empty.
C11_CompletenessFormula ==
    spc = "scored" =>
        score = <<2 * Cardinality({f \in core_fields : Filled(fields[f])})
                    + Cardinality({f \in standard_fields : Filled(fields[f])}),
                  17>>

----------------------------------------------------------------------------
(* Claims about the extraction of one page *)

\* the extraction has returned a scored, successful result
Scored == epc = "done" /\ extracted_data.success

\* 0.5 plus the boosts as the specification lists them, in hundredths
StatedConfidenceSum ==
    50 + (IF page.answer = "object" THEN 20 ELSE 0)
       + (IF AnyContactValue(extracted_data.contact_information) THEN 10 ELSE 0)
       + (IF AllowListed(extracted_data.location) THEN 15 ELSE 0)
       + (IF extracted_data.technical_stack = "many" THEN 10 ELSE 0)
       + (IF extracted_data.funding_sources # "none"
             \/ extracted_data.funding_amounts # "none" THEN 10 ELSE 0)

\* C12: the confidence score of every extraction result lies in [0.0, 1.0],
\* whatever boosts apply; when the base plus the boosts exceeds 1.0 the score
\* is exactly 1.0.
C12_ConfidenceBounds ==
    epc = "done" =>
        /\ 0 <= extracted_data.confidence_score
        /\ extracted_data.confidence_score <= 100
        /\ extracted_data.success /\ evariant = "full" /\ StatedConfidenceSum > 100
              => extracted_data.confidence_score = 100

\* all five boosts apply (the sum is 1.15) and the score is 1.0
C12_Witness ==
    /\ Scored /\ evariant = "full"
    /\ StatedConfidenceSum = 115
    /\ extracted_data.confidence_score = 100

\* C13: the confidence score equals min(1.0, 0.5 + the applicable boosts):
\* +0.2 only when the structured (non-fallback) extraction succeeded, +0.1 when
\* a contact subfield is populated, +0.15 when the location names an
\* allow-listed country, +0.1 when technical_stack has more than one entry,
\* +0.1 when funding sources or amounts are present; nothing else contributes.
C13_ConfidenceFormula ==
    Scored => extracted_data.confidence_score = Min(100, StatedConfidenceSum)

\* the flags the specification lists for a result, one per condition that holds
StatedFlags ==
    (IF extracted_data.title = "none" THEN {"Missing title"} ELSE {})
    \cup (IF extracted_data.description = "none" THEN {"Missing description"} ELSE {})
    \cup (IF extracted_data.location = "none"
          THEN {"No African location identified"} ELSE {})
    \cup (IF ~AnyContactValue(extracted_data.contact_information)
          THEN {"No contact information found"} ELSE {})
    \cup (IF extracted_data.funding_amounts # "none"
             /\ extracted_data.funding_sources = "none"
          THEN {"Funding amounts mentioned without sources"} ELSE {})
    \cup (IF extracted_data.technical_approach = "none"
             /\ extracted_data.technical_stack = "none"
          THEN {"Limited technical details"} ELSE {})

\* C14: the validation flags of a scored result hold exactly one flag for each
\* of the six conditions that holds (title missing, description missing,
\* location missing, no contact channel populated, funding amounts without
\* funding sources, neither technical_approach nor technical_stack) and none
\* for a condition that does not hold.
C14_FlagsExact ==
    Scored =>
        LET flags == extracted_data.validation_flags
        IN  /\ {flags[k][1] : k \in 1..Len(flags)} = StatedFlags
            /\ Len(flags) = Cardinality(StatedFlags)

\* C15: every result with success = false carries at least one validation
\* flag, and the flag holds the message of the exception that caused the
\* failure, raised by the fetch, the extraction, the merge or link-following.
C15_FailedResultFlagged ==
    epc = "done" /\ ~extracted_data.success =>
        /\ raised # ""
        /\ Len(extracted_data.validation_flags) >= 1
        /\ \E k \in 1..Len(extracted_data.validation_flags) :
              extracted_data.validation_flags[k] = <<"Extraction failed", raised>>

\* link-following raised after the page had been mapped and merged
C15_Witness ==
    /\ epc = "done" /\ ~extracted_data.success
    /\ page.links = "raises" /\ raised = "link-following failed"
    /\ extracted_data.validation_flags = <<(<<"Extraction failed", "link-following failed">>)>>

\* the fields that the merges can write
MergedFields ==
    {"title", "description", "location", "technical_approach",
     "technical_stack", "funding_sources", "funding_amounts"}

\* C16: merging pattern-derived data never changes a field or contact subfield
\* that the structured extraction populated: what was non-empty before the
\* merge has the same value after the page merge and after each followed-link
\* merge.
C16_MergeKeepsPopulated ==
    epc \in {"processed", "done"} /\ extracted_data.success =>
        /\ \A f \in MergedFields :
              mapped[f] # "none" => extracted_data[f] = mapped[f]
        /\ mapped.contact_information.email # "none" =>
              extracted_data.contact_information.email = mapped.contact_information.email
        /\ mapped.contact_information.github # "none" =>
              extracted_data.contact_information.github = mapped.contact_information.github

\* C17: when the structured answer of a page is not well-formed and cannot be
\* turned into the expected sections, the extraction falls back to the
\* patterns of the fetched text and yields success = true; it never produces a
\* failed result.
C17_ParseFailureFallsBack ==
    /\ epc \in {"processed", "done"}
    /\ page.answer \in {"not_json", "json_null", "json_array", "bad_section"}
    /\ page.links # "raises"
    => extracted_data.success

----------------------------------------------------------------------------
(* Claims about link-following *)

\* C18: for one target, the number of related-link pages fetched is at most 3
\* however many links qualify by anchor text, and a failed fetch of one link
\* neither stops the remaining links nor fails the extraction: when the
\* function returns, every chosen link up to the limit has been attempted.
C18_LinkFollowingBounded ==
    /\ fetched <= 3
    /\ lpc = "returned" /\ ldepth > 0 =>
          fetched = Min(3, Len(priority_links))

\* five links qualified, three were attempted, and only the third was stored:
\* the first two fetches failed
C18_Witness ==
    /\ lpc = "returned"
    /\ Len(priority_links) >= 5
    /\ fetched = 3
    /\ additional_data = {priority_links[3]}
    /\ priority_links[3] \notin {priority_links[1], priority_links[2]}

----------------------------------------------------------------------------
(* Claims about the collector missions *)

\* <<query, position>> order: the order in which targets are discovered
DiscoveredBefore(a, b) == a[1] < b[1] \/ (a[1] = b[1] /\ a[2] < b[2])

\* C19: each mission returns at most its cap of targets whatever the search
\* responses hold (academic 20, innovation 30, news 15, community 10), and the
\* targets kept are the first ones discovered in query order.
C19_MissionCap ==
    mpc = "returned" =>
        /\ mission = "academic" => Len(mout) <= 20
        /\ mission = "innovation" => Len(mout) <= 30
        /\ mission = "news" => Len(mout) <= 15
        /\ mission = "community" => Len(mout) <= 10
        /\ Len(mout) <= Len(mtargets)
        /\ \A i \in 1..Len(mout) : mout[i] = mtargets[i]
        /\ \A i \in 1..Len(mout) : \A j \in (Len(mout) + 1)..Len(mtargets) :
              DiscoveredBefore(mout[i], mtargets[j])

\* the innovation mission found more than 30 targets and returned 30, the last
\* of them from a later query than the first
C19_Witness ==
    /\ mpc = "returned" /\ mission = "innovation"
    /\ Len(mtargets) > 30 /\ Len(mout) = 30
    /\ mout[1][1] < mout[30][1]

\* C20: when a search query of a mission throws, the mission does not abort:
\* every query of the battery is still issued exactly once, the targets of the
\* queries that were answered are kept, and the mission returns normally.
C20_QueryFailureIsolated ==
    /\ mpc # "idle" => \A q \in 1..QueryCount(mission) : missued[q] <= 1
    /\ mpc = "returned" =>
          /\ \A q \in 1..QueryCount(mission) : missued[q] = 1
          /\ Len(mresp) = QueryCount(mission)
          /\ \A q \in 1..QueryCount(mission) :
                \A k \in 1..Extracted(mission, q, mresp[q]) :
                    \E i \in 1..Len(mtargets) : mtargets[i] = <<q, k>>
          /\ \A i \in 1..Len(mtargets) : mresp[mtargets[i][1]] >= mtargets[i][2]

\* the second query of the news mission threw; the first and the third were
\* answered and their targets are in the list returned
C20_Witness ==
    /\ mpc = "returned" /\ mission = "news"
    /\ mresp = <<4, -1, 4>>
    /\ Len(mout) = 8
    /\ mout[1] = <<1, 1>> /\ mout[8] = <<3, 4>>

----------------------------------------------------------------------------
(* Persistence handoff *)

\* C21: once the handoff is over, Persist has been called exactly once for
\* every accepted record, in the order the gate forwarded them, whether or
\* not an earlier call failed, and database_records_created is the number of
\* calls that succeeded.
C21_PersistEachOnce ==
    gpc = "stored" =>
        /\ Len(persist_calls) = Len(validated)
        /\ \A k \in 1..Len(validated) : persist_calls[k][1] = validated[k]
        /\ database_records_created =
              Cardinality({k \in 1..Len(persist_calls) : persist_calls[k][2]})

\* the first Persist call failed, the second was still made and succeeded
C21_Witness ==
    /\ gpc = "stored"
    /\ Len(persist_calls) = 2
    /\ ~persist_calls[1][2] /\ persist_calls[2][2]
    /\ database_records_created = 1

----------------------------------------------------------------------------
(* Claims about cycles, the history and the statistics *)

\* the recommendation of the success-rate gate, in either orchestrator's wording
DiscoveryTexts ==
    {"Improve URL discovery and validation before extraction",
     "Improve URL discovery and validation"}

HasRecommendation(list, texts) == \E k \in 1..Len(list) : list[k][1] \in texts

\* C22: when every extraction of a cycle returns or throws, every started
\* cycle ends with its CollectionCycleResult in the history; a cycle without
\* a successful extraction (every target failed, or no target at all) reports
\* the success rate 0 and still carries its recommendations, no division by
\* zero having stopped the reporter or the statistics.
C22_CycleCompletes ==
    /\ \A k \in 1..MaxCycles :
          (cycle_seq >= k) ~> (Len(collection_history) >= k)
    /\ [](\A j \in 1..Len(collection_history) :
            collection_history[j].innovations_extracted = 0 =>
                /\ HasRecommendation(collection_history[j].recommendations, DiscoveryTexts)
                /\ LET st == get_collection_stats(SubSeq(collection_history, 1, j))
                   IN  /\ ~st.last_performance.success_rate.err
                       /\ st.last_performance.success_rate.num = 0)

\* a cycle without targets and a cycle whose only extraction threw have both
\* completed
C22_Witness ==
    /\ Len(collection_history) = 2
    /\ collection_history[1].targets_processed = 0
    /\ collection_history[2].targets_processed = 1
    /\ collection_history[2].innovations_extracted = 0
    /\ Len(collection_history[2].recommendations) = 2

\* the extractions in flight, over every cycle under way
AllInFlight == UNION {{<<r.id, i>> : i \in InFlightOf(r)} : r \in running}

C24_StatsOfLatestCycle ==
    [][stats' # stats =>
          LET k == cycle_seq - Cardinality(running) IN
          IF k = 0 THEN "message" \in DOMAIN stats'
          ELSE /\ "message" \notin DOMAIN stats'
               /\ stats'.total_cycles = k
               /\ LET last == collection_history[Len(collection_history)]
                      perf == stats'.last_performance
                  IN  /\ last.cycle_id = k
                      /\ stats'.latest_cycle_id = k
                      /\ perf.targets_discovered = last.targets_discovered
                      /\ perf.targets_processed = last.targets_processed
                      /\ perf.innovations_extracted = last.innovations_extracted
                      /\ stats'.recommendations = last.recommendations
                      /\ ~perf.success_rate.err
                      /\ IF last.targets_processed = 0
                         THEN perf.success_rate.num = 0
                         ELSE perf.success_rate.num * last.targets_processed
                              = last.innovations_extracted * perf.success_rate.den
      ]_vars

\* the statistics after two cycles: a cycle with one successful extraction,
\* then a cycle without targets
C24_Witness ==
    /\ "message" \notin DOMAIN stats
    /\ stats.total_cycles = 2
    /\ stats.latest_cycle_id = 2
    /\ stats.last_performance.targets_processed = 0
    /\ collection_history[1].innovations_extracted = 1

\* C25: a step changes the history only by appending one result, and it does
\* so exactly when a run completes, with the result of that run; the entries
\* already there stay as they are and no run has two entries.
C25_HistoryAppendOnly ==
    [][LET h == collection_history
           h2 == collection_history'
       IN  /\ Len(h2) >= Len(h)
           /\ Len(h2) <= Len(h) + 1
           /\ SubSeq(h2, 1, Len(h)) = h
           /\ (Len(h2) = Len(h) + 1) <=> (\E r \in running : running' = running \ {r})
           /\ Len(h2) = Len(h) + 1 =>
                 \E r \in running :
                    /\ running' = running \ {r}
                    /\ h2[Len(h2)].cycle_id = r.id
                    /\ \A j \in 1..Len(h) : h[j].cycle_id # r.id
      ]_vars

\* two runs have completed, their results are in the history in that order
C25_Witness ==
    /\ Len(collection_history) = 2
    /\ collection_history[1].cycle_id = 1
    /\ collection_history[2].cycle_id = 2
    /\ collection_history[1].innovations_extracted = 1
    /\ running = {}

----------------------------------------------------------------------------
(* Claims about the recommendations *)

SchemaTexts ==
    {"Enhance extraction schemas and LLM prompts for better data capture",
     "Enhance extraction schemas for better data capture"}

RelevanceTexts == {"Improve African relevance filtering in target discovery"}

\* successful / attempted < 0.7, the rate of an empty batch being 0
StatedSuccessRateLow ==
    LET attempted == Len(extraction_results)
        successful == Cardinality({k \in 1..attempted : extraction_results[k].success})
    IN  IF attempted = 0 THEN TRUE ELSE successful * 10 < 7 * attempted

\* mean completeness of the successful extractions < 0.5, the mean of none being 0
StatedCompletenessLow ==
    LET ok == {k \in 1..Len(extraction_results) : extraction_results[k].success}
    IN  IF ok = {} THEN TRUE
        ELSE SumCompleteness(extraction_results, 1) * 2 < 17 * Cardinality(ok)

\* C26: the reporter returns at most five recommendations; the one about
\* target discovery is among them exactly when successful / attempted < 0.7,
\* and the one about schemas and prompts exactly when the average
\* completeness of the successful extractions is < 0.5.
C26_ThresholdGates ==
    rpc = "done" =>
        /\ ~rraised
        /\ Len(recommendations) <= 5
        /\ HasRecommendation(recommendations, DiscoveryTexts) <=> StatedSuccessRateLow
        /\ HasRecommendation(recommendations, SchemaTexts) <=> StatedCompletenessLow

\* two of three extractions succeeded, both complete: the discovery
\* recommendation is emitted (0.67 < 0.7), the schema one is not
C26_Witness ==
    /\ rpc = "done" /\ rvariant = "full"
    /\ Len(extraction_results) = 3
    /\ Cardinality({k \in 1..3 : extraction_results[k].success}) = 2
    /\ HasRecommendation(recommendations, DiscoveryTexts)
    /\ ~HasRecommendation(recommendations, SchemaTexts)

\* the extracted records: the results of the successful extractions
ExtractedRecords == {k \in 1..Len(extraction_results) : extraction_results[k].success}

----------------------------------------------------------------------------
(* Claims about the repository targets *)

\* a path segment as written in the text: a full stop that ends the sentence
\* after the URL is not part of the segment
RECURSIVE Segment(_)
Segment(run) ==
    IF run # <<>> /\ run[Len(run)] = "." THEN Segment(SubSeq(run, 1, Len(run) - 1))
    ELSE run

\* the repository URLs present in the text, in order: prefix, owner, "/", repo
RECURSIVE RepositoryUrls(_, _)
RepositoryUrls(c, p) ==
    IF p > Len(c) THEN <<>>
    ELSE LET o == RunEnd(c, p + 1)
             r == RunEnd(c, o + 1)
         IN  IF /\ c[p] = UrlPrefix
                /\ o > p + 1 /\ o <= Len(c) /\ c[o] = "/"
                /\ Segment(SubSeq(c, o + 1, r - 1)) # <<>>
             THEN <<[owner |-> SubSeq(c, p + 1, o - 1),
                     repo |-> Segment(SubSeq(c, o + 1, r - 1))]>>
                  \o RepositoryUrls(c, r)
             ELSE RepositoryUrls(c, p + 1)

\* C28: every repository URL host/owner/repo present in the text gives one
\* target of content type GITHUB_REPOSITORY whose metadata.owner and
\* metadata.repo_name are the owner and repo segments of that URL.
C28_OneTargetPerRepositoryUrl ==
    hpc = "done" =>
        LET urls == RepositoryUrls(search_content, 1) IN
        /\ Len(github_targets) = Len(urls)
        /\ \A k \in 1..Len(urls) :
              /\ github_targets[k].content_type = "GITHUB_REPOSITORY"
              /\ github_targets[k].metadata.owner = urls[k].owner
              /\ github_targets[k].metadata.repo_name = urls[k].repo

----------------------------------------------------------------------------
(* Claims about the processed targets and the links followed *)

\* C29: once the queue has returned, every target it processed carries the
\* result that stands for it in the returned batch (extraction_result and
\* processed_at are set together), whether the extraction returned a
\* successful result, returned a failed one or threw.
C29_ResultAttachedToTarget ==
    pcq = "returned" /\ qout = "returned" =>
        \A k \in 1..Len(batch) : attached[batch[k][1]] = batch[k][2]

\* the max_depth extract_innovation_data was called with
CallerMaxDepth == CHOOSE d \in CallerMaxDepths : FollowDepth(d) = ldepth

\* C30: with link-following enabled at most max_depth links are followed, and
\* when max_depth >= 1 and the page has a qualifying link, at least one link
\* is followed.
C30_LinksFollowedUpToMaxDepth ==
    lpc = "returned" =>
        /\ fetched <= CallerMaxDepth
        /\ (CallerMaxDepth >= 1 /\ PriorityLinks(llinks, lcontent_type, 1) # <<>>)
              => fetched >= 1

----------------------------------------------------------------------------
(* Claims about the pacing of the queries *)

\* C31: between two successive queries of a mission there is a delay: every
\* query but the last one issued is followed by the sleep before the next
\* query is issued, whether it was answered or it failed.
C31_DelayBetweenQueries ==
    \A q \in 1..(Len(mresp) - 1) : mslept[q]

----------------------------------------------------------------------------
(* Claims about follow-up targets and the stability of the order *)

\* position of input target i in the prioritized queue, 0 when it was dropped
QueuePosition(i) ==
    IF \E k \in 1..Len(pout) : pout[k] = i
    THEN CHOOSE k \in 1..Len(pout) : pout[k] = i
    ELSE 0

\* C32: a follow-up target created from a validation flag is URGENT; in the
\* prioritized queue it precedes every target that is not URGENT, and when
\* the cap drops it no target that is not URGENT is kept.
C32_ValidationTargetsFirst ==
    ppc = "done" =>
        \A i \in 1..Len(pin) :
            pin[i].source_collector = "INTELLIGENCE_SYNTHESIS" =>
                /\ pin[i].priority = "URGENT"
                /\ \A j \in 1..Len(pin) :
                      (pin[j].priority # "URGENT" /\ QueuePosition(j) # 0) =>
                          /\ QueuePosition(i) # 0
                          /\ QueuePosition(i) < QueuePosition(j)

\* a follow-up target handed over last, behind two HIGH targets, with a cap
\* of two: it heads the queue and one HIGH target is dropped
C32_Witness ==
    /\ ppc = "done" /\ pvariant = "full" /\ max_targets = 2
    /\ Len(pin) = 3
    /\ pin[1].priority = "HIGH" /\ pin[2].priority = "HIGH"
    /\ pin[3].source_collector = "INTELLIGENCE_SYNTHESIS"
    /\ pout[1] = 3 /\ Len(pout) = 2


\* C33: the prioritization is stable: of two targets with equal priority rank
\* and equal discovered_at the one earlier in the input is earlier in the
\* output, and the cap never keeps the later one without the earlier one.
C33_StableOrder ==
    ppc = "done" =>
        \A i \in 1..Len(pin) : \A j \in (i + 1)..Len(pin) :
            (/\ priority_order(pin[i].priority) = priority_order(pin[j].priority)
             /\ pin[i].discovered_at = pin[j].discovered_at
             /\ QueuePosition(j) # 0) =>
                /\ QueuePosition(i) # 0
                /\ QueuePosition(i) < QueuePosition(j)

\* three targets of one rank and one time with a cap of two: the first two of
\* the input are kept in their input order
C33_Witness ==
    /\ ppc = "done" /\ pvariant = "full" /\ max_targets = 2
    /\ Len(pin) = 3
    /\ \A i \in 1..3 : SortKey(pin[i]) = SortKey(pin[1])
    /\ pout = <<1, 2>>

----------------------------------------------------------------------------
(* Claims about the extraction of one cycle *)

\* C34: within one run of the queue the extraction of a target is invoked at
\* most once: a target whose extraction has begun never waits for an
\* extraction again, and one whose extraction has ended, with a result or a
\* failure, stays ended until the queue has returned and been consumed.
C34_ExtractedAtMostOnce ==
    [][pcq = "gathering" =>
          \A i \in Tasks :
              /\ tstate[i] = "inflight" => tstate'[i] \in {"inflight", "done"}
              /\ tstate[i] = "done" => tstate'[i] = "done" /\ taskres'[i] = taskres[i]]_vars

\* the extraction of a target raised and the queue returned: the target was
\* extracted once and its result is the failed one
C34_Witness ==
    /\ pcq = "returned" /\ variant = "semaphore" /\ nTargets = 2
    /\ threw[1] /\ taskres[1] = "failed" /\ taskres[2] = "ok"
    /\ \A i \in Tasks : tstate[i] = "done"

----------------------------------------------------------------------------
(* Claims about the order of merging and scoring *)

\* C35: the completeness score, the confidence score and the validation flags
\* of a returned successful result are those the scoring functions give for
\* the result's final field values, the data of the followed links included.
C35_ScoredAfterMerging ==
    (epc = "done" /\ extracted_data.success) =>
        /\ extracted_data.data_completeness_score
               = calculate_completeness_score(ScoredKinds(extracted_data))
        /\ extracted_data.confidence_score
               = calculate_confidence_score(extracted_data, page.answer, evariant)
        /\ extracted_data.validation_flags
               = generate_validation_flags(extracted_data, evariant)

\* a followed link gave the technical stack the page itself did not have: the
\* field counts in the completeness score and the flag about technical
\* details is not raised
C35_Witness ==
    /\ epc = "done" /\ extracted_data.success /\ evariant = "full"
    /\ page.links = "data"
    /\ mapped.technical_stack = "none" /\ mapped.technical_approach = "none"
    /\ extracted_data.technical_stack = "link"
    /\ extracted_data.data_completeness_score[1] >= 1
    /\ \A k \in 1..Len(extracted_data.validation_flags) :
           extracted_data.validation_flags[k][1] # "Limited technical details"

----------------------------------------------------------------------------
(* Claims about the permits of the extraction queue *)

\* C36: every extraction gives its permit back, whether it returned a
\* successful result, a failed one or raised: when the queue has returned no
\* extraction is in flight and all max_concurrent permits are available, and
\* while the queue is under way every queued target comes to hold a permit.
C36_PermitsReleased ==
    /\ [](pcq = "returned" => InFlight = {} /\ sem = max_concurrent)
    /\ [](pcq = "gathering" => <>(\A i \in Tasks : tstate[i] # "waiting"))

\* three targets on one permit, one extraction raised, one failed, one
\* succeeded: the queue has returned and the permit is back
C36_Witness ==
    /\ pcq = "returned" /\ variant = "semaphore"
    /\ nTargets = 3 /\ max_concurrent = 1
    /\ threw[1] /\ taskres[2] = "failed" /\ ~threw[2] /\ taskres[3] = "ok"
    /\ InFlight = {} /\ sem = 1

----------------------------------------------------------------------------
(* Claims about the counts of a cycle *)

\* the counts of one CollectionCycleResult are ordered and within the cap
CountsOrdered(c) ==
    /\ c.database_records_created <= c.innovations_extracted
    /\ c.innovations_extracted <= c.targets_processed
    /\ c.targets_processed <= c.targets_discovered
    /\ c.targets_processed <= MaxCycleTargets

\* C37: in every CollectionCycleResult of the orchestrator
\* database_records_created <= innovations_extracted <= targets_processed
\* <= targets_discovered and targets_processed <= max_targets_per_cycle, and
\* the success rate its statistics report lies in [0, 1].
C37_CountsOrdered ==
    cvariant = "full" =>
        /\ \A k \in 1..Len(collection_history) : CountsOrdered(collection_history[k])
        /\ "last_performance" \in DOMAIN stats =>
              /\ ~stats.last_performance.success_rate.err
              /\ 0 <= stats.last_performance.success_rate.num
              /\ stats.last_performance.success_rate.num
                     <= stats.last_performance.success_rate.den

\* more targets were discovered than the cap lets through, the extraction of
\* the queued ones succeeded and a record was stored: the statistics report
\* a rate of 1
C37_Witness ==
    /\ cvariant = "full"
    /\ Len(collection_history) >= 1
    /\ collection_history[1].targets_discovered > MaxCycleTargets
    /\ collection_history[1].targets_processed = MaxCycleTargets
    /\ collection_history[1].database_records_created >= 1
    /\ "last_performance" \in DOMAIN stats
    /\ stats.last_performance.success_rate.num = stats.last_performance.success_rate.den

----------------------------------------------------------------------------
(* Claims about the pipeline triggers, the background runs and the monitor *)

\* C38: a trigger request is accepted, and its background run scheduled, when
\* the pipeline is not running, and rejected as already running when it is;
\* no pipeline has more than one background run active.
C38_TriggerAcceptedWhenIdle ==
    /\ response.pipeline # "none" => (response.success <=> ~response.was_running)
    /\ \A p \in Pipelines : active_runs[p] <= 1

\* C39: every pipeline run calls complete_job exactly once, on the normal
\* path, on an exception and on an unsupported provider; a job is marked
\* running only while a run of it is active, and success_count + error_count
\* of a job is the number of its completed runs.
C39_CompleteJobOncePerRun ==
    \A p \in Pipelines :
        /\ completed_runs[p] > 0 => run_calls[p] = 1
        /\ (job_statuses[p].is_running => active_runs[p] > 0)
        /\ job_statuses[p].success_count + job_statuses[p].error_count
               = completed_runs[p]

\* the jobs of the test whose with block has been left
Exited == {k \in 1..Len(tjobs) : k < tpos \/ (k = tpos /\ tpc = "raised")}

\* C40: a job whose body raised is recorded as failed with the message of the
\* exception, error_count incremented and health failing; a job whose body
\* did not raise is recorded as successful with its items added and health
\* healthy; neither is left marked running; and once the loop of the test is
\* over every job of the list has been recorded, the ones after a failed job
\* included.
C40_ContextRecordsEveryJob ==
    /\ \A k \in Exited :
          LET status == job_statuses[tjobs[k].name] IN
          /\ ~status.is_running
          /\ IF tjobs[k].success
             THEN /\ status.success_count = 1 /\ status.error_count = 0
                  /\ status.items_processed = tjobs[k].items
                  /\ status.health_status = "healthy"
             ELSE /\ status.error_count = 1 /\ status.success_count = 0
                  /\ status.last_error = "Simulated job failure"
                  /\ status.health_status = "failing"
    /\ tpc \in {"done", "raised"} =>
          \A k \in 1..Len(tjobs) :
              job_statuses[tjobs[k].name].success_count
                  + job_statuses[tjobs[k].name].error_count = 1

============================================================================
